---------------------------- MODULE Spec2Model ----------------------------
(***************************************************************************)
(* A model of the test-case generation service of TC_GENGEN                *)
(* (src/services/geminiService.ts, the version of lines 1-577).            *)
(*                                                                         *)
(* Strings are sequences of one-character strings, so that trimming,       *)
(* scanning and parsing are computed character by character as the code    *)
(* does.  JavaScript values of unknown type (what JSON.parse returns, the   *)
(* fields of a record the language model wrote) are tagged records.  The   *)
(* id of a test case is the value crypto.randomUUID() gave it, modelled as  *)
(* a number that is unique per record.                                     *)
(*                                                                         *)
(* The specifications of the module:                                      *)
(*   SpecPost     postProcessTestCases applied to bounded record lists     *)
(*   SpecRecover  the recovery parsers applied to bounded response texts   *)
(*   Spec         generateTestCases: the phase loop over model responses   *)
(*   SpecFetch    fetchViaProxy and fetchWithRetry of figmaService.ts      *)
(*   SpecApp      handleRefineTCs of App.tsx                               *)
(*   SpecImport   the three operations of figmaService.ts                  *)
(*   SpecDelay    the cancellable delay of figmaService.ts                  *)
(*   SpecExpand   generateTestCases of src/unnamed/part_001 (lines 1-616):  *)
(*                expansion pages and verification                         *)
(*   SpecAudit    generateTestCases of src/unnamed/part_000: draft and     *)
(*                DEEP_DIVE audit                                          *)
(*   SpecProjects the projects of App.tsx: setup, selection, save, and     *)
(*                generate and refine runs in the background               *)
(*   SpecSetup    the design-import handlers of ProjectSetup.tsx and       *)
(*                their abort controller                                   *)
(***************************************************************************)
EXTENDS Integers, Sequences, FiniteSets, TLC

VARIABLES
    \* ---- postProcessTestCases (SpecPost)
    tcInput,      \* the argument of postProcessTestCases
    tcOnce,       \* postProcessTestCases(tcInput)
    tcTwice,      \* postProcessTestCases(postProcessTestCases(tcInput))
    postPc,       \* "build" | "once" | "twice"
    \* ---- the recovery parsers (SpecRecover)
    respText,     \* the response text
    frags,        \* the names of the fragments the text was built of
    recPc,        \* "build" | "brackets" | "regex" | "recovered"
    bracketsOut,  \* what parseViaBrackets answered on the fence-stripped text
    regexOut,     \* what parseViaRegex answered on the fence-stripped text
    recovered,    \* what recoverTruncatedJson answered on the text
    \* ---- generateTestCases (Spec)
    genPc,        \* "start" | "loop" | "request" | "delay" | "done" | "noClient"
                  \* | "rejected"
    phaseI,       \* the loop variable i of the phase loop, 0-based as in the code
    apiAttempts,  \* callGeminiWithRetry's counter of failed attempts
    callTrace,    \* history: the requests, failures and delays of the call of
                  \* callGeminiWithRetry in flight; empty outside a call
    accumulatedTestCases,
    accumulatedQuestions,
    finalSummary,
    currentStartNo,
    nextId,       \* the next fresh record id
    genResult,    \* the value generateTestCases resolved with
    phaseLog,     \* history: the phases started and ended, in order
    batchCounts,  \* history: the number of records each ended phase appended
    lastPhase,    \* history: what the phase that ended last did
    \* ---- fetchViaProxy and fetchWithRetry of figmaService (SpecFetch)
    fetchPc,      \* "idle" | "fetching" | "relayDelay" | "backoff" | "errorDelay"
                  \* | "returned" | "raised"
    isImage,      \* the argument isImage of the call of fetchViaProxy in flight
    byRetry,      \* whether fetchWithRetry is the caller of fetchViaProxy
    relayI,       \* the loop variable i of fetchViaProxy, 0-based as in the code
    lastError,    \* fetchViaProxy's lastError
    aborted,      \* signal.aborted
    contacted,    \* history: the relays that this call of fetchViaProxy sent a
                  \* request to, in order
    answers,      \* history: what these relays answered
    relayWaits,   \* history: the delays of this call of fetchViaProxy, in ms
    retries,      \* the argument retries of the call of fetchWithRetry in flight
    defaultBackoff, \* its argument defaultBackoff
    retryWaits,   \* history: the delays of all calls of fetchWithRetry, in ms
    proxyCalls,   \* history: the number of calls of fetchViaProxy
    fetchResult,  \* what the outermost call resolved or rejected with
    \* ---- handleRefineTCs of App (SpecApp)
    appPc,        \* "idle" | "refining"
    storedTestCases,  \* the testCases of the project in the projects state
    storedQuestions,  \* its questions
    generationState,  \* generationStates[projectId]
    appNextId,    \* the next fresh record id
    refineRuns,   \* the number of refine runs started
    lastRefine,   \* history: the stored records before the run that ended
                  \* last, how it ended and what it returned
    \* ---- the operations of figmaService (SpecImport)
    impPc,        \* "idle" | "list" | "textFetch" | "textDelay" | "imageFetch"
                  \* | "imageRetry" | "imageDelay" | "download" | "reading"
                  \* | "downloadDelay" | "resolved" | "rejected"
    impOp,        \* "getFigmaFilePages" | "getFigmaFrames" | "processFigmaPage"
    fileKey,      \* extractFileKey(fileUrl), empty for null
    targetNodeIds,  \* the argument targetNodeIds: whether given, and its ids
    signalAborted,  \* signal.aborted of the operation
    abortedAt,    \* history: where the operation waited when the signal fired
    targets,      \* processFigmaPage's targets
    batchI,       \* the loop variable i of the batch loops, 0-based as in the code
    targetI,      \* the position of the assembly loop in targets, 1-based
    textMap,
    imageUrlMap,  \* the ids that imageUrlMap has a URL for
    batchImages,  \* the ids that batchData.images has a URL for
    dlRetries,    \* the argument retries of the call of urlToBase64 in flight
    uploadedFiles,
    requests,     \* history: the steps that sent a request, in order
    delays,       \* history: the number of delays started
    failedSteps,  \* history: the steps that a failure was absorbed in
    blockedSteps, \* history: the steps whose catch block got the hard-block error
    impResult,    \* what the operation resolved or rejected with
    \* ---- delay of figmaService (SpecDelay)
    delayCalls,   \* the calls of delay, in order: timer, promise and listener
    delaySignal,  \* signal.aborted of the one signal of these calls
    \* ---- generateTestCases with expansion pages (SpecExpand)
    expPc,        \* "start" | "page" | "verify" | "done"
    expPhaseI,    \* the loop variable i of the phase loop, 0-based as in the code
    hasMore,
    pageCount,
    phaseDraftTCs,
    expAccumulated,  \* accumulatedTestCases
    expStartNo,   \* currentStartNo
    expNextId,    \* the next fresh record id
    pageLog,      \* history: what the expansion calls of the phase answered
    \* ---- generateTestCases with the DEEP_DIVE audit (SpecAudit)
    audPc,        \* "start" | "draft" | "audit" | "done"
    audPhaseI,    \* the loop variable i of the phase loop, 0-based as in the code
    phaseTCs,
    audAccumulated,  \* accumulatedTestCases
    audNextId,    \* the next fresh record id
    audLog,       \* history: per finished phase its draft, its audit and what it appended
    \* ---- the projects of App (SpecProjects)
    viewState,    \* "DASHBOARD" | "SETUP" | "WORKSPACE"
    projects,     \* the list of projects: records of id, testCases, questions
    currentProject,   \* NoProject or the project shown in the workspace
    generationStates, \* per project id: isGenerating, message
    runsInFlight, \* per project id: NoRun or the pending call of a handler
    runsStarted,  \* the number of runs started so far
    \* ---- the design import of ProjectSetup (SpecSetup)
    figmaStep,    \* "INPUT" | "SELECT_PAGE" | "SELECT_LAYER" | "PROCESSING"
    isLoading,
    errorMsg,     \* "none" | "input" | "failed"
    selectedLayers,     \* selectedLayerIds.size
    abortControllerRef, \* 0 for null, else the controller of the handler call
    abortedControllers, \* the controllers whose signal is aborted
    pendingOps,   \* the handler calls that await their service: id, kind
    handlerCalls, \* the number of handler calls so far
    mounted,      \* the component is mounted
    overlapped    \* history: a handler was called while an operation was pending

postVars == <<tcInput, tcOnce, tcTwice, postPc>>
recVars  == <<respText, frags, recPc, bracketsOut, regexOut, recovered>>
genVars  == <<genPc, phaseI, apiAttempts, callTrace, accumulatedTestCases,
              accumulatedQuestions, finalSummary, currentStartNo, nextId, genResult,
              phaseLog, batchCounts, lastPhase>>
fetchVars == <<fetchPc, isImage, byRetry, relayI, lastError, aborted, contacted,
               answers, relayWaits, retries, defaultBackoff, retryWaits, proxyCalls,
               fetchResult>>
appVars  == <<appPc, storedTestCases, storedQuestions, generationState, appNextId,
              refineRuns, lastRefine>>
impVars  == <<impPc, impOp, fileKey, targetNodeIds, signalAborted, abortedAt, targets,
              batchI, targetI, textMap, imageUrlMap, batchImages, dlRetries,
              uploadedFiles, requests, delays, failedSteps, blockedSteps, impResult>>
delayVars == <<delayCalls, delaySignal>>
expVars  == <<expPc, expPhaseI, hasMore, pageCount, phaseDraftTCs, expAccumulated,
              expStartNo, expNextId, pageLog>>
audVars  == <<audPc, audPhaseI, phaseTCs, audAccumulated, audNextId, audLog>>
projVars == <<viewState, projects, currentProject, generationStates, runsInFlight,
              runsStarted>>
setupVars == <<figmaStep, isLoading, errorMsg, selectedLayers, abortControllerRef,
               abortedControllers, pendingOps, handlerCalls, mounted, overlapped>>
vars     == <<postVars, recVars, genVars, fetchVars, appVars, impVars, delayVars,
              expVars, audVars, projVars, setupVars>>

(***************************************************************************)
(* Bounds of the model.                                                    *)
(***************************************************************************)
MaxRecs  == 3         \* longest record list handed to postProcessTestCases
MaxFrags == 3         \* most fragments a response text is built of
MaxRuns  == 3         \* most runs on the projects
MaxProjects == 2      \* most projects that are set up
MaxCalls == 4         \* most calls of the import handlers
MaxChildren == 4      \* the number of children of the page node
MaxDelays == 3        \* most calls of delay on one signal

(***************************************************************************)
(* Characters and strings.  Indices are 1-based here and 0-based in the    *)
(* code; "no index" is 0 here and -1 in the code.                          *)
(***************************************************************************)
SP == " "
NL == "\n"
QUOTE == "\""
BACKSLASH == "\\"

\* White space as \s and String.prototype.trim see it.
IsSpace(c) == c \in {SP, NL}

RECURSIVE trimStart(_)
trimStart(s) ==
    IF s # <<>> /\ IsSpace(Head(s)) THEN trimStart(Tail(s)) ELSE s

RECURSIVE trimEnd(_)
trimEnd(s) ==
    IF s # <<>> /\ IsSpace(s[Len(s)]) THEN trimEnd(SubSeq(s, 1, Len(s) - 1)) ELSE s

trim(s) == trimEnd(trimStart(s))

\* The collation weight of a character under localeCompare(_, 'ko'):
\* white space sorts before letters, letters in alphabetical order.  The
\* characters of the depth values have pairwise distinct weights.
CollationWeight(c) ==
    CASE c = NL  -> 0
      [] c = SP  -> 1
      [] c = "a" -> 2
      [] c = "b" -> 3
      [] OTHER   -> 4

\* String.prototype.localeCompare: negative, zero or positive.
RECURSIVE localeCompare(_, _)
localeCompare(x, y) ==
    IF x = <<>> /\ y = <<>> THEN 0
    ELSE IF x = <<>> THEN -1
    ELSE IF y = <<>> THEN 1
    ELSE IF CollationWeight(Head(x)) < CollationWeight(Head(y)) THEN -1
    ELSE IF CollationWeight(Head(x)) > CollationWeight(Head(y)) THEN 1
    ELSE localeCompare(Tail(x), Tail(y))

IsDigit(c) == c \in {"0", "1", "2", "3", "4", "5", "6", "7", "8", "9"}

DigitVal(c) ==
    CASE c = "0" -> 0 [] c = "1" -> 1 [] c = "2" -> 2 [] c = "3" -> 3
      [] c = "4" -> 4 [] c = "5" -> 5 [] c = "6" -> 6 [] c = "7" -> 7
      [] c = "8" -> 8 [] c = "9" -> 9

DigitChar(d) ==
    CASE d = 0 -> "0" [] d = 1 -> "1" [] d = 2 -> "2" [] d = 3 -> "3"
      [] d = 4 -> "4" [] d = 5 -> "5" [] d = 6 -> "6" [] d = 7 -> "7"
      [] d = 8 -> "8" [] d = 9 -> "9"

\* The decimal digits of a natural number, as a template literal prints it.
RECURSIVE decimal(_)
decimal(n) == IF n < 10 THEN <<DigitChar(n)>> ELSE Append(decimal(n \div 10), DigitChar(n % 10))

\* Whether pat occurs in s at index i.
StartsWithAt(s, i, pat) ==
    /\ i >= 1
    /\ i + Len(pat) - 1 <= Len(s)
    /\ \A k \in 1..Len(pat) : s[i + k - 1] = pat[k]

\* The least element of a set of indices, 0 for the empty set.
firstIndex(hits) == IF hits = {} THEN 0 ELSE CHOOSE k \in hits : \A m \in hits : k <= m

\* String.prototype.indexOf(c, from) for a single character.
indexOf(s, c, from) == firstIndex({k \in from..Len(s) : s[k] = c})

\* One step of String.prototype.replace(/pat/g, rep) at index i: a match is
\* replaced and its characters are skipped, any other character is copied.
replaceStep(s, pat, rep, st, i) ==
    IF st.skip > 0 THEN [st EXCEPT !.skip = @ - 1]
    ELSE IF StartsWithAt(s, i, pat)
         THEN [out |-> st.out \o rep, skip |-> Len(pat) - 1]
    ELSE [out |-> Append(st.out, s[i]), skip |-> 0]

\* The steps at the indices lo..hi in ascending order.  The range is walked
\* by halves, left half first, so that the evaluation nests only
\* logarithmically deep.  (left = left has the left half
\* computed before the right half is entered.)
RECURSIVE replaceRange(_, _, _, _, _, _)
replaceRange(s, pat, rep, st, lo, hi) ==
    IF lo > hi THEN st
    ELSE IF lo = hi THEN replaceStep(s, pat, rep, st, lo)
    ELSE LET mid == (lo + hi) \div 2
             left == replaceRange(s, pat, rep, st, lo, mid)
         IN  IF left = left THEN replaceRange(s, pat, rep, left, mid + 1, hi) ELSE st

\* String.prototype.replace(/pat/g, rep) for a literal pattern: matches are
\* taken left to right and do not overlap.
replaceAll(s, pat, rep) ==
    replaceRange(s, pat, rep, [out |-> <<>>, skip |-> 0], 1, Len(s)).out

RECURSIVE skipWs(_, _)
skipWs(s, i) == IF i <= Len(s) /\ IsSpace(s[i]) THEN skipWs(s, i + 1) ELSE i

\* The longest run of digits from i: its value and the index behind it.
RECURSIVE scanDigits(_, _, _)
scanDigits(s, i, acc) ==
    IF i <= Len(s) /\ IsDigit(s[i]) THEN scanDigits(s, i + 1, acc * 10 + DigitVal(s[i]))
    ELSE [n |-> acc, pos |-> i]

\* The two replace calls that remove the markdown code fences (line 156).
\* (the backquote character is written BQ)
BACKQUOTE == "BQ"
FENCE == <<BACKQUOTE, BACKQUOTE, BACKQUOTE>>
FENCE_JSON == FENCE \o <<"j", "s", "o", "n">>
stripFences(s) == replaceAll(replaceAll(s, FENCE_JSON, <<>>), FENCE, <<>>)

(***************************************************************************)
(* JavaScript values as JSON.parse builds them.  Every value has the same  *)
(* shape: t is its type, n the number, s the string, items the elements of *)
(* an array or the members [key, val] of an object in source order.        *)
(***************************************************************************)
JUndefined == [t |-> "undefined", n |-> 0, s |-> <<>>, items |-> <<>>]
JNull      == [t |-> "null", n |-> 0, s |-> <<>>, items |-> <<>>]
JNum(n)    == [t |-> "number", n |-> n, s |-> <<>>, items |-> <<>>]
JStr(s)    == [t |-> "string", n |-> 0, s |-> s, items |-> <<>>]
JArr(xs)   == [t |-> "array", n |-> 0, s |-> <<>>, items |-> xs]
JObj(ms)   == [t |-> "object", n |-> 0, s |-> <<>>, items |-> ms]

\* obj[key]: the last member of that key wins; a value that is no object has
\* no properties of interest.
RECURSIVE memberFrom(_, _, _)
memberFrom(ms, k, key) ==
    IF k = 0 THEN JUndefined
    ELSE IF ms[k].key = key THEN ms[k].val
    ELSE memberFrom(ms, k - 1, key)

getProp(v, key) ==
    IF v.t = "object" THEN memberFrom(v.items, Len(v.items), key) ELSE JUndefined

\* JavaScript truthiness.
Truthy(v) ==
    CASE v.t = "undefined" -> FALSE
      [] v.t = "null"      -> FALSE
      [] v.t = "number"    -> v.n # 0
      [] v.t = "string"    -> v.s # <<>>
      [] OTHER             -> TRUE

K_no          == <<"n", "o">>
K_title       == <<"t", "i", "t", "l", "e">>
K_steps       == <<"s", "t", "e", "p", "s">>
K_depth1      == <<"d", "e", "p", "t", "h", "1">>
K_depth2      == <<"d", "e", "p", "t", "h", "2">>
K_depth3      == <<"d", "e", "p", "t", "h", "3">>
K_precondition == <<"p", "r", "e", "c", "o", "n", "d", "i", "t", "i", "o", "n">>
K_expectedResult ==
    <<"e", "x", "p", "e", "c", "t", "e", "d", "R", "e", "s", "u", "l", "t">>
K_testCases   == <<"t", "e", "s", "t", "C", "a", "s", "e", "s">>
K_testcases   == <<"t", "e", "s", "t", "c", "a", "s", "e", "s">>
K_questions   == <<"q", "u", "e", "s", "t", "i", "o", "n", "s">>
K_summary     == <<"s", "u", "m", "m", "a", "r", "y">>

(***************************************************************************)
(* JSON.parse, for the JSON that the model's alphabet can spell: objects,  *)
(* arrays, strings with the escapes for a quote, a backslash and a new     *)
(* line, unsigned integers and null.                                       *)
(* null.                                                                   *)
(* A parse answers [ok, val, pos]: pos is the index behind the value.      *)
(***************************************************************************)
JFail == [ok |-> FALSE, val |-> JUndefined, pos |-> 0]
JOk(v, pos) == [ok |-> TRUE, val |-> v, pos |-> pos]

\* The characters of a string literal, from behind its opening quote.
RECURSIVE jsonString(_, _, _)
jsonString(s, i, acc) ==
    IF i > Len(s) THEN JFail
    ELSE IF s[i] = QUOTE THEN JOk(JStr(acc), i + 1)
    ELSE IF s[i] = BACKSLASH
         THEN IF i + 1 <= Len(s) /\ s[i + 1] \in {QUOTE, BACKSLASH}
                 THEN jsonString(s, i + 2, Append(acc, s[i + 1]))
              ELSE IF i + 1 <= Len(s) /\ s[i + 1] = "n"
                 THEN jsonString(s, i + 2, Append(acc, NL))
              ELSE JFail
    ELSE jsonString(s, i + 1, Append(acc, s[i]))

\* A number literal: 0, or a digit 1-9 followed by digits.
jsonNumber(s, i) ==
    IF s[i] = "0" THEN JOk(JNum(0), i + 1)
    ELSE LET d == scanDigits(s, i, 0) IN JOk(JNum(d.n), d.pos)

RECURSIVE jsonValue(_, _)
RECURSIVE jsonMembers(_, _, _)
RECURSIVE jsonElements(_, _, _)

jsonValue(s, i0) ==
    LET i == skipWs(s, i0) IN
    IF i > Len(s) THEN JFail
    ELSE IF s[i] = "{"
         THEN LET j == skipWs(s, i + 1) IN
              IF j <= Len(s) /\ s[j] = "}" THEN JOk(JObj(<<>>), j + 1)
              ELSE jsonMembers(s, j, <<>>)
    ELSE IF s[i] = "["
         THEN LET j == skipWs(s, i + 1) IN
              IF j <= Len(s) /\ s[j] = "]" THEN JOk(JArr(<<>>), j + 1)
              ELSE jsonElements(s, j, <<>>)
    ELSE IF s[i] = QUOTE THEN jsonString(s, i + 1, <<>>)
    ELSE IF IsDigit(s[i]) THEN jsonNumber(s, i)
    ELSE IF StartsWithAt(s, i, <<"n", "u", "l", "l">>) THEN JOk(JNull, i + 4)
    ELSE JFail

\* "key" : value, then a comma and more members, or the closing brace.
jsonMembers(s, i, acc) ==
    IF i > Len(s) \/ s[i] # QUOTE THEN JFail
    ELSE LET name == jsonString(s, i + 1, <<>>) IN
         IF ~name.ok THEN JFail
         ELSE LET c == skipWs(s, name.pos) IN
              IF c > Len(s) \/ s[c] # ":" THEN JFail
              ELSE LET v == jsonValue(s, c + 1) IN
                   IF ~v.ok THEN JFail
                   ELSE LET d == skipWs(s, v.pos)
                            acc2 == Append(acc, [key |-> name.val.s, val |-> v.val])
                        IN  IF d > Len(s) THEN JFail
                            ELSE IF s[d] = "}" THEN JOk(JObj(acc2), d + 1)
                            ELSE IF s[d] = "," THEN jsonMembers(s, skipWs(s, d + 1), acc2)
                            ELSE JFail

\* value, then a comma and more elements, or the closing bracket.
jsonElements(s, i, acc) ==
    LET v == jsonValue(s, i) IN
    IF ~v.ok THEN JFail
    ELSE LET d == skipWs(s, v.pos)
             acc2 == Append(acc, v.val)
         IN  IF d > Len(s) THEN JFail
             ELSE IF s[d] = "]" THEN JOk(JArr(acc2), d + 1)
             ELSE IF s[d] = "," THEN jsonElements(s, d + 1, acc2)
             ELSE JFail

\* JSON.parse(text): ok is FALSE where the code's call throws a SyntaxError.
JSONparse(s) ==
    LET v == jsonValue(s, 1) IN
    IF v.ok /\ skipWs(s, v.pos) > Len(s) THEN v ELSE JFail

(***************************************************************************)
(* postProcessTestCases (lines 200-224): sort by (depth1, depth2, depth3), *)
(* then renumber.  A test case is a record [id, no, title, depth1, depth2, *)
(* depth3, precondition, steps, expectedResult]; no is a number and the    *)
(* other fields hold JavaScript values.                                    *)
(***************************************************************************)

\* (x || ""), for a field that holds a string or a falsy value.
orEmpty(v) == IF Truthy(v) THEN v.s ELSE <<>>

\* A tie-break on the incoming 'no' instead of the insertion order.
compareByNoOnTies(a, b) ==
    LET d1a == trim(orEmpty(a.depth1))  d1b == trim(orEmpty(b.depth1))
        d2a == trim(orEmpty(a.depth2))  d2b == trim(orEmpty(b.depth2))
        d3a == trim(orEmpty(a.depth3))  d3b == trim(orEmpty(b.depth3))
    IN  IF d1a # d1b THEN localeCompare(d1a, d1b)
        ELSE IF d2a # d2b THEN localeCompare(d2a, d2b)
        ELSE IF d3a # d3b THEN localeCompare(d3a, d3b)
        ELSE a.no - b.no

\* A comparator that never answers 0: equal keys are reported as "a after b".
compareNoTies(a, b) ==
    LET d1a == trim(orEmpty(a.depth1))  d1b == trim(orEmpty(b.depth1))
        d2a == trim(orEmpty(a.depth2))  d2b == trim(orEmpty(b.depth2))
        d3a == trim(orEmpty(a.depth3))  d3b == trim(orEmpty(b.depth3))
    IN  IF d1a # d1b THEN localeCompare(d1a, d1b)
        ELSE IF d2a # d2b THEN localeCompare(d2a, d2b)
        ELSE IF d3a # d3b THEN localeCompare(d3a, d3b)
        ELSE 1

\* The comparator handed to Array.prototype.sort (lines 202-217).
compareTestCases(a, b) ==
    LET d1a == trim(orEmpty(a.depth1))  d1b == trim(orEmpty(b.depth1))
        d2a == trim(orEmpty(a.depth2))  d2b == trim(orEmpty(b.depth2))
        d3a == trim(orEmpty(a.depth3))  d3b == trim(orEmpty(b.depth3))
    IN  IF d1a # d1b THEN localeCompare(d1a, d1b)
        ELSE IF d2a # d2b THEN localeCompare(d2a, d2b)
        ELSE IF d3a # d3b THEN localeCompare(d3a, d3b)
        ELSE 0

\* Array.prototype.sort is stable (ES2019): an element is placed before the
\* first element that the comparator orders strictly after it.
RECURSIVE insertSorted(_, _)
insertSorted(sorted, x) ==
    IF sorted = <<>> THEN <<x>>
    ELSE IF compareTestCases(Head(sorted), x) > 0 THEN <<x>> \o sorted
    ELSE <<Head(sorted)>> \o insertSorted(Tail(sorted), x)

RECURSIVE sortTestCases(_)
sortTestCases(tcs) ==
    IF tcs = <<>> THEN <<>>
    ELSE insertSorted(sortTestCases(SubSeq(tcs, 1, Len(tcs) - 1)), tcs[Len(tcs)])

\* Renumbering that keeps the 0-based index.
renumberFromZero(sorted) ==
    [index \in 1..Len(sorted) |-> [sorted[index] EXCEPT !.no = index - 1]]

\* sorted.map((tc, index) => ({...tc, no: index + 1})); index is 0-based in
\* the code and 1-based here.
renumber(sorted) ==
    [index \in 1..Len(sorted) |-> [sorted[index] EXCEPT !.no = index]]

postProcessTestCases(testCases) == renumber(sortTestCases(testCases))

(***************************************************************************)
(* Strategy A: parseViaBrackets.                                           *)
(***************************************************************************)
MAX_ITERATIONS == 10000

\* A pass that takes every quote inside a string for its end.
scanStepNoEscapes(text, st, i) ==
    LET char == text[i] IN
    IF st.end # 0 THEN st
    ELSE IF st.inString
         THEN IF char = QUOTE THEN [st EXCEPT !.inString = FALSE] ELSE st
    ELSE IF char = QUOTE THEN [st EXCEPT !.inString = TRUE]
    ELSE IF char = "{" THEN [st EXCEPT !.balance = @ + 1]
    ELSE IF char = "}"
         THEN IF st.balance - 1 = 0 THEN [st EXCEPT !.balance = 0, !.end = i]
              ELSE [st EXCEPT !.balance = @ - 1]
    ELSE st

\* One pass of the body of the inner for loop (lines 67-104) at index i; end
\* is the index of the brace that brought the balance back to 0, and once it
\* is set the loop has left through its break.
scanStep(text, st, i) ==
    LET char == text[i] IN
    IF st.end # 0 THEN st
    ELSE IF st.inString
         THEN IF char = BACKSLASH THEN [st EXCEPT !.isEscaped = ~@]
              ELSE IF char = QUOTE /\ ~st.isEscaped THEN [st EXCEPT !.inString = FALSE]
              ELSE [st EXCEPT !.isEscaped = FALSE]
    ELSE IF char = QUOTE THEN [st EXCEPT !.inString = TRUE]
    ELSE IF char = "{" THEN [st EXCEPT !.balance = @ + 1]
    ELSE IF char = "}"
         THEN IF st.balance - 1 = 0 THEN [st EXCEPT !.balance = 0, !.end = i]
              ELSE [st EXCEPT !.balance = @ - 1]
    ELSE st

\* The passes of the inner for loop at the indices lo..hi in ascending
\* order.  The range is walked by halves, left half first, so that the
\* evaluation nests only logarithmically deep.  (left = left has the left half
\* computed before the right half is entered.)
RECURSIVE scanRange(_, _, _, _)
scanRange(text, st, lo, hi) ==
    IF lo > hi THEN st
    ELSE IF lo = hi THEN scanStep(text, st, lo)
    ELSE LET mid == (lo + hi) \div 2
             left == scanRange(text, st, lo, mid)
         IN  IF left = left THEN scanRange(text, left, mid + 1, hi) ELSE st

\* The inner for loop from the opening brace: the index of the closing brace
\* that brings the balance back to 0, or 0 when the text ends first.
scanCandidate(text, openBrace) ==
    scanRange(text, [balance |-> 0, inString |-> FALSE, isEscaped |-> FALSE, end |-> 0],
              openBrace, Len(text)).end

\* tcs.forEach(tc => { if (tc.no !== undefined) result.testCases.push(tc) }):
\* reading tc.no of null raises a TypeError, which ends the forEach.
RECURSIVE forEachTestCase(_, _, _)
forEachTestCase(tcs, k, testCases) ==
    IF k > Len(tcs) THEN [testCases |-> testCases, threw |-> FALSE]
    ELSE IF tcs[k].t = "null" THEN [testCases |-> testCases, threw |-> TRUE]
    ELSE IF getProp(tcs[k], K_no).t # "undefined"
         THEN forEachTestCase(tcs, k + 1, Append(testCases, tcs[k]))
    ELSE forEachTestCase(tcs, k + 1, testCases)

\* The statements of the try block behind JSON.parse (lines 84-96) for the
\* parse p of the candidate; threw tells that one of them raised (JSON.parse
\* a SyntaxError, forEach a TypeError).
tryParsed(p, result) ==
    LET obj == p.val
        tcs == IF Truthy(getProp(obj, K_testCases))
               THEN getProp(obj, K_testCases)
               ELSE getProp(obj, K_testcases)
        each == forEachTestCase(tcs.items, 1, result.testCases)
    IN  IF ~p.ok THEN [result |-> result, threw |-> TRUE]
        ELSE IF /\ getProp(obj, K_no).t # "undefined"
                /\ (Truthy(getProp(obj, K_title)) \/ Truthy(getProp(obj, K_steps)))
             THEN [result |-> [result EXCEPT !.testCases = Append(@, obj)],
                   threw |-> FALSE]
        ELSE IF \/ getProp(obj, K_testCases).t = "array"
                \/ getProp(obj, K_testcases).t = "array"
             THEN IF tcs.t # "array" THEN [result |-> result, threw |-> TRUE]
                  ELSE IF each.threw
                       THEN [result |-> [result EXCEPT !.testCases = each.testCases],
                             threw |-> TRUE]
                  ELSE [result |->
                          [result EXCEPT
                             !.testCases = each.testCases,
                             !.questions = IF Truthy(getProp(obj, K_questions))
                                           THEN getProp(obj, K_questions) ELSE @,
                             !.summary = IF Truthy(getProp(obj, K_summary))
                                         THEN getProp(obj, K_summary) ELSE @],
                        threw |-> FALSE]
        ELSE [result |-> result, threw |-> FALSE]

\* The try block (lines 81-97).
tryCandidate(jsonChunk, result) == tryParsed(JSONparse(jsonChunk), result)

\* The try block without its catch: what it raises leaves the function.
uncaughtCandidate(jsonChunk, result) == tryCandidate(jsonChunk, result)

\* try { ... } catch (e) {}: whatever the block raised is swallowed; what it
\* had pushed before stays.
handleCandidate(jsonChunk, result) ==
    [result |-> tryCandidate(jsonChunk, result).result, threw |-> FALSE]

\* After a candidate the scan goes on at the next character, whatever the
\* candidate's end was.
resumeBehindOpenBrace(openBrace, end) == openBrace + 1

\* startIndex for the next iteration: behind the candidate's closing brace
\* (line 100), or behind its opening brace when it was never closed (106).
resumeIndex(openBrace, end) == IF end # 0 THEN end + 1 ELSE openBrace + 1

\* The while loop (lines 58-107).  The answer carries the result object, the
\* final startIndex, the iterations used, the candidates examined (the index of
\* the opening brace and of the closing brace, 0 when none closed it), and
\* whether an exception left the function.
loopAnswer(result, startIndex, maxIterations, opened, threw) ==
    [result |-> result, startIndex |-> startIndex,
     iterations |-> MAX_ITERATIONS - maxIterations, opened |-> opened, threw |-> threw]

RECURSIVE bracketsLoop(_, _, _, _, _)
RECURSIVE afterCandidate(_, _, _, _, _, _, _)

\* The end of an iteration whose candidate was closed at index end and
\* handled (lines 99-101).
afterCandidate(text, startIndex, maxIterations, opened, openBrace, end, handled) ==
    IF handled.threw
    THEN loopAnswer(handled.result, startIndex, maxIterations, opened, TRUE)
    ELSE bracketsLoop(text, resumeIndex(openBrace, end), maxIterations - 1,
                      handled.result, Append(opened, [open |-> openBrace, end |-> end]))

bracketsLoop(text, startIndex, maxIterations, result, opened) ==
    LET openBrace == indexOf(text, "{", startIndex)
        end == scanCandidate(text, openBrace)
    IN  IF maxIterations = 0 THEN loopAnswer(result, startIndex, maxIterations, opened, FALSE)
        ELSE IF openBrace = 0
             THEN loopAnswer(result, startIndex, maxIterations, opened, FALSE)
        ELSE IF end = 0
             THEN bracketsLoop(text, resumeIndex(openBrace, end), maxIterations - 1,
                               result, Append(opened, [open |-> openBrace, end |-> end]))
        ELSE afterCandidate(text, startIndex, maxIterations, opened, openBrace, end,
                            handleCandidate(SubSeq(text, openBrace, end), result))

parseViaBrackets(text, result) == bracketsLoop(text, 1, MAX_ITERATIONS, result, <<>>)

(***************************************************************************)
(* Strategy B: parseViaRegex.                                              *)
(***************************************************************************)
NoMatch == [found |-> FALSE, start |-> 0, end |-> 0, no |-> 0]

\* /{\s*"no"\s*:\s*(\d+)[^}]*?}/ anchored at index p: the digits are taken
\* greedily and the chunk ends at the first closing brace behind them.
matchObjectAt(text, p) ==
    LET a == skipWs(text, p + 1)
        b == skipWs(text, a + 4)
        c == skipWs(text, b + 1)
        d == scanDigits(text, c, 0)
        e == indexOf(text, "}", d.pos)
    IN  IF text[p] # "{" THEN NoMatch
        ELSE IF ~StartsWithAt(text, a, <<QUOTE, "n", "o", QUOTE>>) THEN NoMatch
        ELSE IF b > Len(text) \/ text[b] # ":" THEN NoMatch
        ELSE IF c > Len(text) \/ ~IsDigit(text[c]) THEN NoMatch
        ELSE IF e = 0 THEN NoMatch
        ELSE [found |-> TRUE, start |-> p, end |-> e, no |-> d.n]

\* objectRegex.exec(text) from lastIndex: the leftmost match.
objectRegexExec(text, from) ==
    LET p == firstIndex({k \in from..Len(text) : matchObjectAt(text, k).found}) IN
    IF p = 0 THEN NoMatch ELSE matchObjectAt(text, p)

\* ((?:[^"\\]|\\.)*?)" from behind the opening quote: the captured text up to
\* the first quote that no backslash escapes; ok is FALSE when none closes it.
RECURSIVE scanFieldValue(_, _, _)
scanFieldValue(chunk, i, acc) ==
    IF i > Len(chunk) THEN [ok |-> FALSE, s |-> <<>>]
    ELSE IF chunk[i] = QUOTE THEN [ok |-> TRUE, s |-> acc]
    ELSE IF chunk[i] = BACKSLASH
         THEN IF i + 1 <= Len(chunk)
              THEN scanFieldValue(chunk, i + 2, acc \o <<chunk[i], chunk[i + 1]>>)
              ELSE [ok |-> FALSE, s |-> <<>>]
    ELSE scanFieldValue(chunk, i + 1, Append(acc, chunk[i]))

\* "key"\s*:\s*"(...)" anchored at index q of the chunk.
matchFieldAt(chunk, key, q) ==
    LET a == skipWs(chunk, q + Len(key) + 2)
        b == skipWs(chunk, a + 1)
    IN  IF ~StartsWithAt(chunk, q, <<QUOTE>> \o key \o <<QUOTE>>)
           THEN [ok |-> FALSE, s |-> <<>>]
        ELSE IF a > Len(chunk) \/ chunk[a] # ":" THEN [ok |-> FALSE, s |-> <<>>]
        ELSE IF b > Len(chunk) \/ chunk[b] # QUOTE THEN [ok |-> FALSE, s |-> <<>>]
        ELSE scanFieldValue(chunk, b + 1, <<>>)

\* regex.exec(chunk): the leftmost match.
fieldRegexExec(chunk, key) ==
    LET q == firstIndex({k \in 1..Len(chunk) : matchFieldAt(chunk, key, k).ok}) IN
    IF q = 0 THEN [ok |-> FALSE, s |-> <<>>] ELSE matchFieldAt(chunk, key, q)

\* getField (lines 122-130): the captured value with \" and \\ unescaped, or
\* the empty string.
getField(chunk, key) ==
    LET m == fieldRegexExec(chunk, key) IN
    IF m.ok
    THEN replaceAll(replaceAll(m.s, <<BACKSLASH, QUOTE>>, <<QUOTE>>),
                    <<BACKSLASH, BACKSLASH>>, <<BACKSLASH>>)
    ELSE <<>>

\* The object literal pushed at lines 136-145.
regexRecord(chunk, no) ==
    JObj(<< [key |-> K_no, val |-> JNum(no)],
            [key |-> K_title, val |-> JStr(getField(chunk, K_title))],
            [key |-> K_depth1, val |-> JStr(getField(chunk, K_depth1))],
            [key |-> K_depth2, val |-> JStr(getField(chunk, K_depth2))],
            [key |-> K_depth3, val |-> JStr(getField(chunk, K_depth3))],
            [key |-> K_precondition, val |-> JStr(getField(chunk, K_precondition))],
            [key |-> K_steps, val |-> JStr(getField(chunk, K_steps))],
            [key |-> K_expectedResult, val |-> JStr(getField(chunk, K_expectedResult))] >>)

\* if (title || steps) result.testCases.push(record) (lines 135-146): title
\* and steps are the record's.
pushIfNamed(testCases, record) ==
    IF getProp(record, K_title).s # <<>> \/ getProp(record, K_steps).s # <<>>
    THEN Append(testCases, record) ELSE testCases

\* The while loop over objectRegex.exec (lines 116-147); m is the match of
\* the iteration.
RECURSIVE regexLoop(_, _, _)
RECURSIVE regexMatched(_, _, _)

regexMatched(text, m, testCases) ==
    IF ~m.found THEN testCases
    ELSE regexLoop(text, m.end + 1,
                   pushIfNamed(testCases, regexRecord(SubSeq(text, m.start, m.end), m.no)))

regexLoop(text, lastIndex, testCases) ==
    regexMatched(text, objectRegexExec(text, lastIndex), testCases)

parseViaRegex(text, result) ==
    [result EXCEPT !.testCases = regexLoop(text, 1, result.testCases)]

(***************************************************************************)
(* recoverTruncatedJson (lines 150-167).                                   *)
(***************************************************************************)
EmptyResult == [testCases |-> <<>>, questions |-> JArr(<<>>), summary |-> JStr(<<>>)]

\* Both strategies are run, whatever Strategy A found.
regexAlways(cleanText, a) ==
    IF a.threw THEN [result |-> a.result, threw |-> TRUE]
    ELSE [result |-> parseViaRegex(cleanText, a.result), threw |-> FALSE]

recoverCleanWithBoth(cleanText) ==
    regexAlways(cleanText, parseViaBrackets(cleanText, EmptyResult))

recoverWithBothStrategies(text) == recoverCleanWithBoth(stripFences(text))

\* Lines 160-166 for the answer a of parseViaBrackets: Strategy B runs only
\* if Strategy A found no record.
regexIfEmpty(cleanText, a) ==
    IF a.threw THEN [result |-> a.result, threw |-> TRUE]
    ELSE IF a.result.testCases = <<>>
         THEN [result |-> parseViaRegex(cleanText, a.result), threw |-> FALSE]
    ELSE [result |-> a.result, threw |-> FALSE]

\* Lines 158-166 on the text without fences.
recoverClean(cleanText) ==
    regexIfEmpty(cleanText, parseViaBrackets(cleanText, EmptyResult))

\* The answer carries the result object and whether an exception left the
\* function.
recoverTruncatedJson(text) == recoverClean(stripFences(text))
(***************************************************************************)
(* getVal and mapToTestCases (lines 227-252).                              *)
(***************************************************************************)
\* String.prototype.toLowerCase on one character.
lowerChar(c) ==
    CASE c = "A" -> "a" [] c = "B" -> "b" [] c = "C" -> "c" [] c = "D" -> "d"
      [] c = "E" -> "e" [] c = "F" -> "f" [] c = "G" -> "g" [] c = "H" -> "h"
      [] c = "I" -> "i" [] c = "J" -> "j" [] c = "K" -> "k" [] c = "L" -> "l"
      [] c = "M" -> "m" [] c = "N" -> "n" [] c = "O" -> "o" [] c = "P" -> "p"
      [] c = "Q" -> "q" [] c = "R" -> "r" [] c = "S" -> "s" [] c = "T" -> "t"
      [] c = "U" -> "u" [] c = "V" -> "v" [] c = "W" -> "w" [] c = "X" -> "x"
      [] c = "Y" -> "y" [] c = "Z" -> "z" [] OTHER -> c

toLowerCase(s) == [k \in 1..Len(s) |-> lowerChar(s[k])]

\* objKeys.find(k => k.toLowerCase() === key.toLowerCase()): the index of the
\* first member whose key matches, 0 when there is none.  A value that is no
\* object has only index keys, which match no field name.
findKey(obj, key) ==
    IF obj.t # "object" THEN 0
    ELSE firstIndex({m \in 1..Len(obj.items) :
                        toLowerCase(obj.items[m].key) = toLowerCase(key)})

K_Title          == <<"T">> \o Tail(K_title)
K_Depth1         == <<"D">> \o Tail(K_depth1)
K_Depth2         == <<"D">> \o Tail(K_depth2)
K_Depth3         == <<"D">> \o Tail(K_depth3)
K_Precondition   == <<"P">> \o Tail(K_precondition)
K_Steps          == <<"S">> \o Tail(K_steps)
K_ExpectedResult == <<"E">> \o Tail(K_expectedResult)
K_expected_result ==
    <<"e", "x", "p", "e", "c", "t", "e", "d", "_", "r", "e", "s", "u", "l", "t">>

\* getVal: for each key in turn the exact property, then the first property
\* whose name matches without regard to case (an empty name counts as not
\* found); the empty string when no key matches or obj is falsy.
RECURSIVE getValFrom(_, _, _)
getValFrom(obj, keys, k) ==
    IF k > Len(keys) THEN JStr(<<>>)
    ELSE LET exact == getProp(obj, keys[k])
             found == findKey(obj, keys[k])
         IN  IF exact.t # "undefined" THEN exact
             ELSE IF found # 0 /\ obj.items[found].key # <<>>
                  THEN getProp(obj, obj.items[found].key)
             ELSE getValFrom(obj, keys, k + 1)

getVal(obj, keys) == IF ~Truthy(obj) THEN JStr(<<>>) ELSE getValFrom(obj, keys, 1)

\* Number(v) || 0 for the values the JSON of the model spells: a number is
\* itself, a string of digits (white space around it ignored) its value, an
\* array what its join spells, and everything else NaN or 0, hence 0.
RECURSIVE numberOrZero(_)
numberOrZero(v) ==
    CASE v.t = "number" -> v.n
      [] v.t = "string" ->
            LET s == trim(v.s) IN
            IF s # <<>> /\ \A k \in 1..Len(s) : IsDigit(s[k])
            THEN scanDigits(s, 1, 0).n ELSE 0
      [] v.t = "array" ->
            IF Len(v.items) = 1 /\ v.items[1].t \in {"number", "string", "array"}
            THEN numberOrZero(v.items[1]) ELSE 0
      [] OTHER -> 0

\* The object literal of mapToTestCases for one raw element; the id is the
\* fresh value of crypto.randomUUID().
toTestCase(tc, id) ==
    [id |-> id,
     no |-> numberOrZero(getProp(tc, K_no)),
     title |-> getVal(tc, <<K_title, K_Title>>),
     depth1 |-> getVal(tc, <<K_depth1, K_Depth1>>),
     depth2 |-> getVal(tc, <<K_depth2, K_Depth2>>),
     depth3 |-> getVal(tc, <<K_depth3, K_Depth3>>),
     precondition |-> getVal(tc, <<K_precondition, K_Precondition>>),
     steps |-> getVal(tc, <<K_steps, K_Steps>>),
     expectedResult |->
         getVal(tc, <<K_expectedResult, K_ExpectedResult, K_expected_result>>)]

\* rawTCs.map(...): threw tells that a TypeError left the function, which
\* happens when rawTCs has no map method (it is no array) or when an element
\* is null (reading tc.no).
mapToTestCases(rawTCs, firstId) ==
    IF rawTCs.t # "array" THEN [tcs |-> <<>>, threw |-> TRUE]
    ELSE IF \E k \in 1..Len(rawTCs.items) : rawTCs.items[k].t \in {"null", "undefined"}
         THEN [tcs |-> <<>>, threw |-> TRUE]
    ELSE [tcs |-> [k \in 1..Len(rawTCs.items) |->
                      toTestCase(rawTCs.items[k], firstId + k - 1)],
          threw |-> FALSE]

(***************************************************************************)
(* normalizeTestCases (lines 170-197).                                     *)
(***************************************************************************)
\* (v || "").trim() raises a TypeError when v is truthy and no string.
CanTrim(v) == ~Truthy(v) \/ v.t = "string"

trimOrEmpty(v) == IF Truthy(v) THEN trim(v.s) ELSE <<>>

\* replace(/(\s+)(\d+\.)(?!\d)/g, '\n$2') from index i: a run of white space
\* that is followed by digits, a period and no further digit is replaced by
\* one new line.
RECURSIVE breakBeforeNumbers(_, _, _)
breakBeforeNumbers(s, i, acc) ==
    IF i > Len(s) THEN acc
    ELSE IF ~IsSpace(s[i]) THEN breakBeforeNumbers(s, i + 1, Append(acc, s[i]))
    ELSE LET d == skipWs(s, i)
             e == scanDigits(s, d, 0).pos
         IN  IF /\ e > d
                /\ e <= Len(s) /\ s[e] = "."
                /\ ~(e + 1 <= Len(s) /\ IsDigit(s[e + 1]))
             THEN breakBeforeNumbers(s, e + 1, acc \o <<NL>> \o SubSeq(s, d, e))
             ELSE breakBeforeNumbers(s, d, acc \o SubSeq(s, i, d - 1))

\* replace(/^\n/, '')
dropLeadingNewline(s) == IF s # <<>> /\ Head(s) = NL THEN Tail(s) ELSE s

formatList(v) == dropLeadingNewline(breakBeforeNumbers(trimOrEmpty(v), 1, <<>>))

\* An object literal that trims the depth fields as well.
normalizeAlsoDepths(tc) ==
    [tc EXCEPT !.title = JStr(trimOrEmpty(tc.title)),
               !.depth1 = JStr(trimOrEmpty(tc.depth1)),
               !.depth2 = JStr(trimOrEmpty(tc.depth2)),
               !.depth3 = JStr(trimOrEmpty(tc.depth3)),
               !.steps = JStr(formatList(tc.steps)),
               !.precondition = JStr(formatList(tc.precondition)),
               !.expectedResult = JStr(trimOrEmpty(tc.expectedResult))]

\* The object literal that normalizeTestCases answers for one record: the
\* depth fields are the spread's, as they came.
normalizeOne(tc) ==
    [tc EXCEPT !.title = JStr(trimOrEmpty(tc.title)),
               !.steps = JStr(formatList(tc.steps)),
               !.precondition = JStr(formatList(tc.precondition)),
               !.expectedResult = JStr(trimOrEmpty(tc.expectedResult))]

normalizeTestCases(tcs) ==
    IF \E k \in 1..Len(tcs) :
          ~(CanTrim(tcs[k].steps) /\ CanTrim(tcs[k].precondition)
              /\ CanTrim(tcs[k].title) /\ CanTrim(tcs[k].expectedResult))
    THEN [tcs |-> <<>>, threw |-> TRUE]
    ELSE [tcs |-> [k \in 1..Len(tcs) |-> normalizeOne(tcs[k])], threw |-> FALSE]

(***************************************************************************)
(* callGeminiWithRetry (lines 257-300) and the phase loop of               *)
(* generateTestCases (lines 302-470).                                      *)
(***************************************************************************)
MAX_API_RETRIES == 3

\* One attempt more than the code makes.
oneMoreAttempt(attempts) == attempts < MAX_API_RETRIES + 1

\* Both the condition of the while loop (line 266) and the condition of the
\* delay in the catch block (line 296), for the incremented counter.
attemptsLeft(attempts) == attempts < MAX_API_RETRIES

\* What the catch block of lines 292-297 makes of what was thrown in the try
\* block, the error of the request or the Error("Empty response text") of
\* line 291: it looks at neither and counts a failed attempt.
caught(failure) == "failed"

\* The names of the phases, in the order of the list.
PHASES ==
    << "1. UI/UX Inspection", "2. Functional Logic (Happy Path)",
       "3. Input Validation", "4. Visual Combinations",
       "5. Edge Cases & Negative" >>

\* String(v) as a template literal spells it.
RECURSIVE toText(_)
RECURSIVE joinFrom(_, _)
toText(v) ==
    CASE v.t = "string" -> v.s
      [] v.t = "number" -> decimal(v.n)
      [] v.t = "array"  -> joinFrom(v.items, 1)
      [] v.t = "object" ->
            <<"[", "o", "b", "j", "e", "c", "t", SP, "O", "b", "j", "e", "c", "t", "]">>
      [] v.t = "null"   -> <<"n", "u", "l", "l">>
      [] OTHER          -> <<"u", "n", "d", "e", "f", "i", "n", "e", "d">>

\* Array.prototype.join(","): null and undefined elements spell nothing.
joinFrom(xs, k) ==
    IF k > Len(xs) THEN <<>>
    ELSE (IF xs[k].t \in {"null", "undefined"} THEN <<>> ELSE toText(xs[k]))
         \o (IF k < Len(xs) THEN <<",">> \o joinFrom(xs, k + 1) ELSE <<>>)

\* finalSummary += " [" + (i+1) + "] " + json.summary (line 431); i is 0-based.
appendSummary(summary, i, v) ==
    summary \o <<SP, "[">> \o decimal(i + 1) \o <<"]", SP>> \o toText(v)

\* The statements behind JSON.parse in the try block of lines 426-432 for the
\* parse p of the response: the batch, its questions and the summary; threw
\* tells that the block was left (a SyntaxError of JSON.parse, or a TypeError
\* because json is null or what is under testCases cannot be mapped).
directParsed(p, i, summary, firstId) ==
    LET json == p.val
        first == getProp(json, K_testCases)
        second == getProp(json, K_testcases)
        tcs == IF Truthy(first) THEN first
               ELSE IF Truthy(second) THEN second ELSE JArr(<<>>)
        mapped == mapToTestCases(tcs, firstId)
        questions == getProp(json, K_questions)
    IN  IF ~p.ok \/ json.t = "null" \/ mapped.threw
        THEN [tcs |-> <<>>, questions |-> JArr(<<>>), summary |-> summary, threw |-> TRUE]
        ELSE [tcs |-> mapped.tcs,
              questions |-> IF Truthy(questions) THEN questions ELSE JArr(<<>>),
              summary |-> IF Truthy(getProp(json, K_summary))
                          THEN appendSummary(summary, i, getProp(json, K_summary))
                          ELSE summary,
              threw |-> FALSE]

\* The try block of lines 426-432.
directBatch(cleanText, i, summary, firstId) ==
    directParsed(JSONparse(cleanText), i, summary, firstId)

\* Lines 436-437 for the answer r of recoverTruncatedJson.
mapRecovered(r, summary, firstId) ==
    LET mapped == mapToTestCases(JArr(r.result.testCases), firstId) IN
    [tcs |-> mapped.tcs, questions |-> r.result.questions, summary |-> summary,
     threw |-> r.threw \/ mapped.threw]

\* The catch block of lines 433-438: recovery from the response text.
recoveredBatch(responseText, summary, firstId) ==
    mapRecovered(recoverTruncatedJson(responseText), summary, firstId)

\* The batch of the try block d, or of the catch block when d was left by
\* an exception; direct tells which.
directOrRecovered(d, responseText, summary, firstId) ==
    IF ~d.threw THEN [batch |-> d, direct |-> TRUE]
    ELSE [batch |-> recoveredBatch(responseText, summary, firstId), direct |-> FALSE]

\* Lines 421-438: the batch of a response.
parseBatch(responseText, i, summary, firstId) ==
    directOrRecovered(directBatch(trim(stripFences(responseText)), i, summary, firstId),
                      responseText, summary, firstId)

\* [...xs]: the elements of an array, the characters of a string; any other
\* value of the model is not iterable and the spread raises a TypeError.
Iterable(v) == v.t \in {"array", "string"}

spread(v) ==
    IF v.t = "array" THEN v.items ELSE [k \in 1..Len(v.s) |-> JStr(<<v.s[k]>>)]

\* Keeping every record whose no is not yet among the accumulated ones.
accumulateUnseenNo(acc, batch) ==
    acc \o SelectSeq(batch, LAMBDA tc : \A k \in 1..Len(acc) : acc[k].no # tc.no)

\* accumulatedTestCases = [...accumulatedTestCases, ...currentBatchTCs]
accumulate(acc, batch) == acc \o batch

\* The loop leaves at the first phase that raised.
breakAfterCatch(i) == Len(PHASES)

\* The catch block of lines 457-460 only logs: the loop goes on with i++.
nextAfterCatch(i) == i + 1

\* Lines 440-455 for the parsed batch and its normalization norm: what the
\* phase leaves in the variables of generateTestCases.  outcome is "empty"
\* after the continue of line 442, "raised" when the catch of line 457 was
\* entered, else "ok"; mapped is the batch as mapToTestCases made it and
\* batch is what normalizeTestCases made of it.
phaseOutcome(parsed, norm, i, acc, questions, startNo, firstId) ==
    LET b == parsed.batch
        lastTC == norm.tcs[Len(norm.tcs)]
        kept(outcome, nextI) ==
            [acc |-> acc, questions |-> questions, summary |-> b.summary,
             startNo |-> startNo, nextId |-> firstId, outcome |-> outcome,
             direct |-> parsed.direct, mapped |-> <<>>, batch |-> <<>>, i |-> nextI]
    IN  IF b.threw THEN kept("raised", nextAfterCatch(i))
        ELSE IF Len(b.tcs) = 0 THEN kept("empty", i + 1)
        ELSE IF norm.threw THEN kept("raised", nextAfterCatch(i))
        ELSE IF ~Iterable(b.questions)
             THEN [acc |-> accumulate(acc, norm.tcs), questions |-> questions,
                   summary |-> b.summary, startNo |-> startNo,
                   nextId |-> firstId + Len(b.tcs), outcome |-> "raised",
                   direct |-> parsed.direct, mapped |-> b.tcs, batch |-> norm.tcs,
                   i |-> nextAfterCatch(i)]
        ELSE [acc |-> accumulate(acc, norm.tcs),
              questions |-> questions \o spread(b.questions),
              summary |-> b.summary,
              startNo |-> (IF lastTC.no # 0 THEN lastTC.no ELSE startNo) + 1,
              nextId |-> firstId + Len(b.tcs), outcome |-> "ok",
              direct |-> parsed.direct, mapped |-> b.tcs, batch |-> norm.tcs,
              i |-> i + 1]

\* Line 445 for the parsed batch, then lines 440-455.
normalizeParsed(parsed, i, acc, questions, startNo, firstId) ==
    phaseOutcome(parsed, normalizeTestCases(parsed.batch.tcs), i, acc, questions,
                 startNo, firstId)

\* Lines 421-455 for the response text of phase i.
phaseBody(responseText, i, acc, questions, summary, startNo, firstId) ==
    normalizeParsed(parseBatch(responseText, i, summary, firstId), i, acc, questions,
                    startNo, firstId)

\* Array.from(new Set(xs)): the first occurrence of every value; objects and
\* arrays are equal only to themselves.
RECURSIVE uniqueFrom(_, _, _)
uniqueFrom(xs, k, acc) ==
    IF k > Len(xs) THEN acc
    ELSE IF /\ xs[k].t \notin {"array", "object"}
            /\ \E m \in 1..Len(acc) : acc[m] = xs[k]
         THEN uniqueFrom(xs, k + 1, acc)
    ELSE uniqueFrom(xs, k + 1, Append(acc, xs[k]))

\* "Generated " + n + " Test Cases across all phases." (line 472)
defaultSummary(n) ==
    <<"G", "e", "n", "e", "r", "a", "t", "e", "d", SP>> \o decimal(n)
      \o <<SP, "T", "e", "s", "t", SP, "C", "a", "s", "e", "s", SP, "a", "c", "r",
           "o", "s", "s", SP, "a", "l", "l", SP, "p", "h", "a", "s", "e", "s", ".">>

\* The comparator of postProcessTestCases reads (x.depth1 || "").trim() of
\* both records of every comparison, and every record of a list of two or
\* more is compared at least once: a depth1 that is truthy and no string
\* raises a TypeError there.
sortRaises(tcs) ==
    Len(tcs) >= 2 /\ \E k \in 1..Len(tcs) : ~CanTrim(tcs[k].depth1)
(***************************************************************************)
(* figmaService.ts (lines 1-474): fetchViaProxy and fetchWithRetry.        *)
(* A call is modelled by a record s of its variables; every operator       *)
(* answers the record at the next await or at the end of the call.         *)
(***************************************************************************)
\* The relay lists (lines 59-75), by the names of the relays.
PROXY_GENERATORS_API == <<"Public (corsproxy.io)", "Private (Workers)">>

PROXY_GENERATORS_IMAGE == <<"wsrv.nl", "weserv.nl", "corsproxy.io">>

\* const generators = isImage ? PROXY_GENERATORS_IMAGE : PROXY_GENERATORS_API
generators(image) == IF image THEN PROXY_GENERATORS_IMAGE ELSE PROXY_GENERATORS_API

RELAY_DELAY_MS == 500      \* delay(500, signal) of fetchViaProxy
ERROR_DELAY_MS == 2000     \* delay(2000, signal) of fetchWithRetry's catch
MIN_BACKOFF_MS == 3000     \* Math.max(defaultBackoff, 3000)
HARD_BLOCK_MS == 60000     \* waitTimeMs > 60000
DEFAULT_RETRIES == 3       \* retries = 3
DEFAULT_BACKOFF == 3000    \* defaultBackoff = 3000

\* The errors.  relay is the relay that a network error came from, -1 for
\* the errors that the service itself throws.
NoError == [name |-> "none", message |-> "none", relay |-> -1]

\* new DOMException('Aborted', 'AbortError') (lines 42, 51, 90), also what
\* fetch rejects with when its signal fires.
AbortError == [name |-> "AbortError", message |-> "Aborted", relay |-> -1]

\* What fetch rejects with when relay i cannot be reached.
NetworkError(i) == [name |-> "TypeError", message |-> "Failed to fetch", relay |-> i]

\* new Error("...") of line 150.
AllProxiesFailed == [name |-> "Error", message |-> "all proxies failed", relay |-> -1]

\* new Error("...") of line 167.
RateLimitExceeded == [name |-> "Error", message |-> "rate limit exceeded", relay |-> -1]

\* new Error("... Figma Access Token ...") of line 181.
TokenBlocked == [name |-> "Error", message |-> "Figma Access Token blocked", relay |-> -1]

\* error.message.includes("Figma Access Token ...") (line 199)
isTokenBlocked(error) == error.message = TokenBlocked.message

\* A response: its status and its Retry-After header, null when absent.
Response(status, retryAfter) == [status |-> status, retryAfter |-> retryAfter]

NoResult == [kind |-> "none", response |-> Response(0, JNull), error |-> NoError]

\* response.ok
ok(status) == status >= 200 /\ status <= 299

\* parseInt(text, 10): leading white space, an optional sign, then the
\* longest run of digits; NaN without a digit.
parseInt(text) ==
    LET i == skipWs(text, 1)
        signed == i <= Len(text) /\ text[i] \in {"+", "-"}
        j == IF signed THEN i + 1 ELSE i
        d == scanDigits(text, j, 0)
    IN  IF d.pos = j THEN [nan |-> TRUE, n |-> 0]
        ELSE [nan |-> FALSE, n |-> IF signed /\ text[i] = "-" THEN 0 - d.n ELSE d.n]

Max(a, b) == IF a >= b THEN a ELSE b

\* The outermost promise settles.
resolved(s, response) ==
    [s EXCEPT !.pc = "returned",
              !.result = [kind |-> "response", response |-> response, error |-> NoError]]

rejected(s, error) ==
    [s EXCEPT !.pc = "raised",
              !.result = [kind |-> "error", response |-> Response(0, JNull),
                          error |-> error]]

\* The catch block of fetchWithRetry (lines 196-207) for an error thrown in
\* its try block.  delay(2000, signal) rejects at once when the signal has
\* fired (lines 41-43), else the retry waits.
catchOfRetry(s, error) ==
    IF error.name = "AbortError" THEN rejected(s, error)
    ELSE IF isTokenBlocked(error) THEN rejected(s, error)
    ELSE IF s.retries > 0
         THEN IF s.aborted THEN rejected(s, AbortError)
              ELSE [s EXCEPT !.pc = "errorDelay",
                             !.retryWaits = Append(@, ERROR_DELAY_MS)]
    ELSE rejected(s, error)

\* Lines 169-187: the wait after a 429, and whether the hard block is met.
waitOf(retryAfterHeader, backoff) ==
    LET parsedVal == parseInt(retryAfterHeader.s) IN
    IF Truthy(retryAfterHeader)
    THEN IF ~parsedVal.nan
         THEN [waitTimeMs |-> parsedVal.n * 1000,
               blocked |-> parsedVal.n * 1000 > HARD_BLOCK_MS]
         ELSE [waitTimeMs |-> backoff, blocked |-> FALSE]
    ELSE [waitTimeMs |-> Max(backoff, MIN_BACKOFF_MS), blocked |-> FALSE]

\* A last attempt that hands the 429 to the caller as its result.
returnsLastRateLimit(s, response) ==
    LET w == waitOf(response.retryAfter, s.defaultBackoff) IN
    IF response.status = 429
    THEN IF s.retries <= 0 THEN resolved(s, response)
         ELSE IF w.blocked THEN catchOfRetry(s, TokenBlocked)
         ELSE IF s.aborted THEN catchOfRetry(s, AbortError)
         ELSE [s EXCEPT !.pc = "backoff", !.retryWaits = Append(@, w.waitTimeMs)]
    ELSE resolved(s, response)

\* Lines 166-195 for the response of fetchViaProxy.
retryOnResponse(s, response) ==
    LET w == waitOf(response.retryAfter, s.defaultBackoff) IN
    IF response.status = 429
    THEN IF s.retries <= 0 THEN catchOfRetry(s, RateLimitExceeded)
         ELSE IF w.blocked THEN catchOfRetry(s, TokenBlocked)
         ELSE IF s.aborted THEN catchOfRetry(s, AbortError)
         ELSE [s EXCEPT !.pc = "backoff", !.retryWaits = Append(@, w.waitTimeMs)]
    ELSE resolved(s, response)

\* fetchViaProxy returns: to fetchWithRetry, or to the caller of the model.
proxyReturns(s, response) ==
    IF s.byRetry THEN retryOnResponse(s, response) ELSE resolved(s, response)

\* fetchViaProxy throws.
proxyThrows(s, error) ==
    IF s.byRetry THEN catchOfRetry(s, error) ELSE rejected(s, error)

\* The loop that forgets lastError behind its last pass.
loopRaisesGeneric(s) ==
    IF s.i >= Len(generators(s.isImage)) THEN proxyThrows(s, AllProxiesFailed)
    ELSE IF s.aborted THEN proxyThrows(s, AbortError)
    ELSE [s EXCEPT !.pc = "fetching", !.contacted = Append(@, s.i)]

\* Lines 89-106 for the value s.i of the loop variable, and line 150 behind
\* the loop.
loopOfProxy(s) ==
    IF s.i >= Len(generators(s.isImage))
    THEN proxyThrows(s, IF s.lastError # NoError THEN s.lastError ELSE AllProxiesFailed)
    ELSE IF s.aborted THEN proxyThrows(s, AbortError)
    ELSE [s EXCEPT !.pc = "fetching", !.contacted = Append(@, s.i)]

\* fetchViaProxy is called (lines 85-89).
callProxy(s, image) ==
    loopOfProxy([s EXCEPT !.isImage = image, !.i = 0, !.lastError = NoError,
                          !.contacted = <<>>, !.answers = <<>>, !.relayWaits = <<>>,
                          !.proxyCalls = @ + 1])

\* await delay(500, signal) of lines 124 and 147: it rejects at once when the
\* signal has fired.
delayOfProxy(s) ==
    IF s.aborted THEN proxyThrows(s, AbortError)
    ELSE [s EXCEPT !.pc = "relayDelay", !.relayWaits = Append(@, RELAY_DELAY_MS)]

\* The next pass of the loop without i++.
retrySameRelay(s) == loopOfProxy(s)

\* i++ and the next pass of the loop.
nextRelay(s) == loopOfProxy([s EXCEPT !.i = @ + 1])

\* Rotating on every response that is neither ok nor a 404.
rotateOnClientError(s, response) ==
    IF response.status = 404 THEN proxyReturns(s, response)
    ELSE IF response.status = 429
         THEN IF s.i = Len(generators(s.isImage)) - 1 THEN proxyReturns(s, response)
              ELSE delayOfProxy(s)
    ELSE IF ok(response.status) THEN proxyReturns(s, response)
    ELSE nextRelay(s)

\* Rotating on every 429, also on that of the last relay.
rotateOnEveryRateLimit(s, response) ==
    IF response.status = 404 THEN proxyReturns(s, response)
    ELSE IF response.status = 429 THEN nextRelay(s)
    ELSE IF ok(response.status) THEN proxyReturns(s, response)
    ELSE IF response.status >= 500 THEN nextRelay(s)
    ELSE proxyReturns(s, response)

\* Lines 108-139 for the response of relay s.i.
onResponse(s, response) ==
    IF response.status = 404 THEN proxyReturns(s, response)
    ELSE IF response.status = 429
         THEN IF s.i = Len(generators(s.isImage)) - 1 THEN proxyReturns(s, response)
              ELSE delayOfProxy(s)
    ELSE IF ok(response.status) THEN proxyReturns(s, response)
    ELSE IF response.status >= 500 THEN nextRelay(s)
    ELSE proxyReturns(s, response)

\* Lines 141-147 for an error that fetch rejected with.
onFetchError(s, error) ==
    IF error.name = "AbortError" THEN proxyThrows(s, error)
    ELSE IF s.i < Len(generators(s.isImage)) - 1
         THEN delayOfProxy([s EXCEPT !.lastError = error])
    ELSE nextRelay([s EXCEPT !.lastError = error])

\* The recursion that hands on the wait as the next backoff base.
retrySameBackoff(s, waitTimeMs) ==
    callProxy([s EXCEPT !.retries = @ - 1, !.defaultBackoff = waitTimeMs], FALSE)

\* Line 192: fetchWithRetry(url, headers, signal, retries - 1, waitTimeMs * 1.5).
\* The first base and the waits that the headers ask for are multiples of
\* 1000 and at most 3 calls follow the first one, so that every product is
\* an integer.
retryAfterBackoff(s, waitTimeMs) ==
    callProxy([s EXCEPT !.retries = @ - 1, !.defaultBackoff = (waitTimeMs * 3) \div 2],
              FALSE)

\* The recursion of the catch block that hands on retries as it is.
retryKeepsCount(s) == callProxy(s, FALSE)

\* Line 204: fetchWithRetry(url, headers, signal, retries - 1, defaultBackoff).
retryAfterError(s) == callProxy([s EXCEPT !.retries = @ - 1], FALSE)

(***************************************************************************)
(* updateTestCasesWithQA (geminiService.ts, lines 476-575) and             *)
(* handleRefineTCs (App.tsx, lines 182-229).                               *)
(***************************************************************************)
\* Lines 555-564 for the parsed batch and its normalization norm: the value
\* that updateTestCasesWithQA resolves with; threw tells that it rejects
\* (lines 571-574) because parsing, normalizing or sorting raised.
refineOutcome(parsed, norm) ==
    IF parsed.batch.threw \/ norm.threw \/ sortRaises(norm.tcs)
    THEN [testCases |-> <<>>, questions |-> JArr(<<>>), threw |-> TRUE,
          mapped |-> 0]
    ELSE [testCases |-> postProcessTestCases(norm.tcs),
          questions |-> parsed.batch.questions, threw |-> FALSE,
          mapped |-> Len(parsed.batch.tcs)]

\* Line 555 for the parsed batch, then lines 557-564.
refineNormalized(parsed) ==
    refineOutcome(parsed, normalizeTestCases(parsed.batch.tcs))

\* Lines 538-564 for the response text.  Lines 541-553 read the records and
\* the questions as lines 426-438 of generateTestCases do; the summary, which
\* they read differently, is not part of the model.
updateTestCasesWithQA(responseText, firstId) ==
    refineNormalized(parseBatch(responseText, 0, <<>>, firstId))

\* Keeping the stored records in front of the returned ones.
mergeTestCases(stored, returned) == stored \o returned

\* testCases: result.testCases (App.tsx, line 205): the stored records of the
\* project after a run that returned records.
replaceTestCases(stored, returned) == returned

\* Lines 193-227 of App.tsx for the value that updateTestCasesWithQA settled
\* with: what handleRefineTCs leaves in the state of App.
refineHandled(result, stored, questions) ==
    IF result.threw
    THEN [testCases |-> stored, questions |-> questions, outcome |-> "failed",
          message |-> "failed"]
    ELSE IF Len(result.testCases) = 0
    THEN [testCases |-> stored, questions |-> questions, outcome |-> "noRecords",
          message |-> "noRecords"]
    ELSE [testCases |-> replaceTestCases(stored, result.testCases),
          questions |-> result.questions, outcome |-> "replaced",
          message |-> "completed"]

(***************************************************************************)
(* figmaService.ts (lines 1-474): extractFileKey, urlToBase64,             *)
(* getFigmaFilePages, getFigmaFrames and processFigmaPage.  A call is      *)
(* modelled by a record p of its variables; every operator answers the     *)
(* record at the next await or at the end of the call.  The id of a node   *)
(* is a number.                                                            *)
(***************************************************************************)
TEXT_BATCH_SIZE == 10      \* const TEXT_BATCH_SIZE = 10
IMAGE_BATCH_SIZE == 2      \* const IMAGE_BATCH_SIZE = 2
IMAGE_RETRIES == 2         \* urlToBase64(imgUrl, signal, 2)

\* [a-zA-Z0-9]
IsAlnum(c) ==
    \/ IsDigit(c)
    \/ c \in {"a", "b", "c", "d", "e", "f", "g", "h", "i", "j", "k", "l", "m",
              "n", "o", "p", "q", "r", "s", "t", "u", "v", "w", "x", "y", "z"}
    \/ c \in {"A", "B", "C", "D", "E", "F", "G", "H", "I", "J", "K", "L", "M",
              "N", "O", "P", "Q", "R", "S", "T", "U", "V", "W", "X", "Y", "Z"}

\* The longest run of [a-zA-Z0-9] from index k.
RECURSIVE scanAlnum(_, _)
scanAlnum(url, k) ==
    IF k <= Len(url) /\ IsAlnum(url[k]) THEN <<url[k]>> \o scanAlnum(url, k + 1)
    ELSE <<>>

\* Whether /(?:file|design|board)\/([a-zA-Z0-9]+)/ matches at index k, and
\* the index of the group.
keyWordAt(url, k) ==
    IF StartsWithAt(url, k, <<"f", "i", "l", "e", "/">>) THEN k + 5
    ELSE IF StartsWithAt(url, k, <<"d", "e", "s", "i", "g", "n", "/">>) THEN k + 7
    ELSE IF StartsWithAt(url, k, <<"b", "o", "a", "r", "d", "/">>) THEN k + 6
    ELSE 0

\* extractFileKey (lines 210-214): the group of the leftmost match, the
\* empty string for null.
extractFileKey(url) ==
    LET at == firstIndex({k \in 1..Len(url) :
                             keyWordAt(url, k) # 0 /\ scanAlnum(url, keyWordAt(url, k)) # <<>>})
    IN  IF at = 0 THEN <<>> ELSE scanAlnum(url, keyWordAt(url, at))

\* new Error("...") of lines 256, 280 and 313.
InvalidUrl == [name |-> "Error", message |-> "invalid Figma URL", relay |-> -1]

\* new Error("...") of line 262.
AccessFailed == [name |-> "Error", message |-> "Figma access failed", relay |-> -1]

\* new Error("...") of line 269.
NoPages == [name |-> "Error", message |-> "no pages", relay |-> -1]

\* new Error("...") of line 286.
LayersFailed == [name |-> "Error", message |-> "layer information failed", relay |-> -1]

\* new Error("...") of line 290.
PageNodeNotFound == [name |-> "Error", message |-> "page node not found", relay |-> -1]

\* new Error("...") of line 320.
PageInfoFailed == [name |-> "Error", message |-> "page information failed", relay |-> -1]

\* new Error("...") of line 324.
NoPageNode == [name |-> "Error", message |-> "no page node", relay |-> -1]

\* new Error("...") of line 333.
NoTargets == [name |-> "Error", message |-> "no frame selected", relay |-> -1]

\* new Error("...") of line 470.
NoOutput == [name |-> "Error", message |-> "no converted file", relay |-> -1]

\* new Error("Image fetch failed: ...") of line 230.
ImageFetchFailed == [name |-> "Error", message |-> "Image fetch failed", relay |-> -1]

\* The ProgressEvent that reader.onerror rejects with (line 236): it has no
\* name and no message.
ReadError == [name |-> "undefined", message |-> "undefined", relay |-> -1]

\* What every relay answers to the requests of one call of fetchWithRetry or
\* of fetchViaProxy.
RelayBehaviours ==
    {"ok", "notFound", "forbidden", "serverError", "rateLimited", "banned", "unreachable"}

statusOf(b) ==
    CASE b = "ok" -> 200
      [] b = "notFound" -> 404
      [] b = "forbidden" -> 403
      [] b = "serverError" -> 500
      [] b = "rateLimited" -> 429
      [] b = "banned" -> 429
      [] OTHER -> 0

headerOf(b) == IF b = "banned" THEN JStr(<<"3", "6", "0", "1">>) ELSE JNull

\* The pending request of the call s settles as the behaviour b has it.
relaySettles(s, b) ==
    IF b = "unreachable"
    THEN onFetchError([s EXCEPT !.answers =
                           Append(@, [status |-> 0, retryAfter |-> JNull, threw |-> TRUE])],
                      NetworkError(s.i))
    ELSE onResponse([s EXCEPT !.answers =
                         Append(@, [status |-> statusOf(b), retryAfter |-> headerOf(b),
                                    threw |-> FALSE])],
                    Response(statusOf(b), headerOf(b)))

\* The call s of fetchWithRetry or fetchViaProxy runs to its end while the
\* signal does not fire: requests settle and delays pass.
RECURSIVE runFetch(_, _)
runFetch(s, b) ==
    IF s.pc \in {"returned", "raised"} THEN s
    ELSE IF s.pc = "fetching" THEN runFetch(relaySettles(s, b), b)
    ELSE IF s.pc = "relayDelay" THEN runFetch(nextRelay(s), b)
    ELSE IF s.pc = "backoff"
         THEN runFetch(retryAfterBackoff(s, s.retryWaits[Len(s.retryWaits)]), b)
    ELSE runFetch(retryAfterError(s), b)

\* The variables of a call of fetchWithRetry(url, headers, signal, 3, 3000)
\* (lines 261, 285, 319, 352, 386, 402) or of fetchViaProxy (line 228).
newCall(retrying, signalled) ==
    [pc |-> "idle", isImage |-> FALSE, byRetry |-> retrying, i |-> 0,
     lastError |-> NoError, aborted |-> signalled, contacted |-> <<>>,
     answers |-> <<>>, relayWaits |-> <<>>, retries |-> DEFAULT_RETRIES,
     defaultBackoff |-> DEFAULT_BACKOFF, retryWaits |-> <<>>, proxyCalls |-> 0,
     result |-> NoResult]

\* await fetchWithRetry(url, headers, signal, 3, 3000) while the signal does
\* not fire.
fetchWithRetry(b) == runFetch(callProxy(newCall(TRUE, FALSE), FALSE), b).result

\* await fetchViaProxy(url, {}, signal, true) while the signal does not fire.
fetchImage(b) == runFetch(callProxy(newCall(FALSE, FALSE), TRUE), b).result

\* A request that the signal has no effect on: it fails on the network.
fetchUnsignalled(retrying, image) ==
    [kind |-> "error", response |-> Response(0, JNull), error |-> NetworkError(0)]

\* The signal fires while the first request of the call is pending.
fetchCancelled(retrying, image) ==
    onFetchError([callProxy(newCall(retrying, FALSE), image) EXCEPT !.aborted = TRUE],
                 AbortError).result

\* The promise of the operation settles.
resolvedWith(p, value) ==
    [p EXCEPT !.pc = "resolved", !.result = [kind |-> "value", value |-> value,
                                             error |-> NoError]]

rejectedWith(p, error) ==
    [p EXCEPT !.pc = "rejected", !.result = [kind |-> "error", value |-> <<>>,
                                             error |-> error]]

\* await delay(ms, signal) (lines 39-54): it rejects at once when the signal
\* has fired, else the operation waits at the position pc.
delayThen(p, pc) ==
    IF p.aborted THEN rejectedWith(p, AbortError)
    ELSE [p EXCEPT !.pc = pc, !.delays = @ + 1]

\* chunkArray (lines 29-36): the number of chunks and the chunk of index i
\* (0-based as in the code).
chunkCount(array, size) == (Len(array) + size - 1) \div size

chunkAt(array, size, i) ==
    SubSeq(array, i * size + 1,
           IF (i + 1) * size < Len(array) THEN (i + 1) * size ELSE Len(array))

VALID_TYPES == {"FRAME", "SECTION", "COMPONENT", "INSTANCE", "GROUP", "TEXT"}

RENDERABLE_TYPES == {"FRAME", "SECTION", "COMPONENT", "INSTANCE", "GROUP"}

\* Array.prototype.filter
RECURSIVE filterNodes(_, _, _)
filterNodes(nodes, kinds, ids) ==
    IF nodes = <<>> THEN <<>>
    ELSE IF Head(nodes).type \in kinds /\ Head(nodes).id \in ids
         THEN <<Head(nodes)>> \o filterNodes(Tail(nodes), kinds, ids)
    ELSE filterNodes(Tail(nodes), kinds, ids)

idsOfNodes(nodes) == {nodes[k].id : k \in 1..Len(nodes)}

\* The children of the valid kinds, whatever targetNodeIds holds.
selectAllValid(children, allowList) ==
    filterNodes(children, VALID_TYPES, idsOfNodes(children))

\* Lines 326-331: the children of the valid kinds, and of them those of the
\* list targetNodeIds if it is given and not empty.  allowList is
\* [given, ids].
selectTargets(children, allowList) ==
    LET valid == filterNodes(children, VALID_TYPES, idsOfNodes(children)) IN
    IF allowList.given /\ allowList.ids # {}
    THEN filterNodes(valid, VALID_TYPES, allowList.ids)
    ELSE valid

\* Lines 374-376: the ids of the renderable nodes of a chunk.
renderableIds(chunk) == idsOfNodes(filterNodes(chunk, RENDERABLE_TYPES, idsOfNodes(chunk)))

\* txtContent = textMap[target.id]; the empty string for undefined.
textOf(p, id) == IF id \in DOMAIN p.textMap THEN p.textMap[id] ELSE ""

\* The image of the target with a text item beside it in every case.
imageWithTextAlways(p, target) ==
    <<[kind |-> "image", target |-> target.id, mimeType |-> "image/jpeg",
       marked |-> FALSE, text |-> ""],
      [kind |-> "text", target |-> target.id, mimeType |-> "text/plain",
       marked |-> FALSE, text |-> textOf(p, target.id)]>>

\* Lines 436-452: the image of the target and, if text was extracted, the
\* text beside it.
imageItems(p, target) ==
    <<[kind |-> "image", target |-> target.id, mimeType |-> "image/jpeg",
       marked |-> FALSE, text |-> ""]>>
    \o (IF textOf(p, target.id) # ""
        THEN <<[kind |-> "text", target |-> target.id, mimeType |-> "text/plain",
                marked |-> FALSE, text |-> textOf(p, target.id)]>>
        ELSE <<>>)

\* Lines 458-467: the note with the failure marker and the text, or the
\* marker of no text.
noteItem(p, target) ==
    [kind |-> "note", target |-> target.id, mimeType |-> "text/plain",
     marked |-> TRUE,
     text |-> IF textOf(p, target.id) # "" THEN textOf(p, target.id) ELSE "(no text)"]

\* Line 470-471: the end of processFigmaPage.
finishPage(p) ==
    IF Len(p.uploadedFiles) = 0 THEN rejectedWith(p, NoOutput)
    ELSE resolvedWith(p, p.uploadedFiles)

\* Lines 422-433 for the target of index t (1-based here), and the end of the
\* loop.  A target without an image URL gets its note in the same pass.
RECURSIVE assembleLoop(_)
assembleLoop(p) ==
    IF p.t > Len(p.targets) THEN finishPage(p)
    ELSE IF p.aborted THEN rejectedWith(p, AbortError)
    ELSE IF p.targets[p.t].id \in p.imageUrlMap
         THEN [p EXCEPT !.pc = "download", !.retriesLeft = IMAGE_RETRIES,
                        !.requests = Append(@, "download")]
    ELSE assembleLoop([p EXCEPT !.uploadedFiles = Append(@, noteItem(p, p.targets[p.t])),
                                !.t = @ + 1])

\* Lines 434-467 for what urlToBase64 resolved with, then the next target.
downloaded(p, base64) ==
    assembleLoop([p EXCEPT !.uploadedFiles =
                               IF base64 # "" THEN @ \o imageItems(p, p.targets[p.t])
                               ELSE Append(@, noteItem(p, p.targets[p.t])),
                           !.failedSteps = IF base64 # "" THEN @ ELSE @ \cup {"download"},
                           !.t = @ + 1])

\* The catch block of urlToBase64 (lines 239-247).
catchOfDownload(p, error) ==
    IF error.name = "AbortError" THEN rejectedWith(p, error)
    ELSE IF p.retriesLeft > 0 THEN delayThen(p, "downloadDelay")
    ELSE downloaded(p, "")

\* Lines 228-232 for the result of fetchViaProxy.
downloadAnswered(p, result) ==
    IF result.kind = "error" THEN catchOfDownload(p, result.error)
    ELSE IF ~ok(result.response.status) THEN catchOfDownload(p, ImageFetchFailed)
    ELSE [p EXCEPT !.pc = "reading"]

\* Lines 233-238: the FileReader ends.
readEnds(p, loaded) ==
    IF loaded THEN downloaded(p, "data:image/jpeg;base64")
    ELSE catchOfDownload(p, ReadError)

\* Line 244: urlToBase64(url, signal, retries - 1) behind the delay.
downloadAgain(p) ==
    IF p.aborted THEN rejectedWith(p, AbortError)
    ELSE [p EXCEPT !.pc = "download", !.retriesLeft = @ - 1,
                   !.requests = Append(@, "download")]

\* Lines 371-386 for the chunk of index i, and the end of the loop.  A chunk
\* without a renderable node is passed over without a request and a delay.
RECURSIVE imageLoop(_)
imageLoop(p) ==
    IF p.i >= chunkCount(p.targets, IMAGE_BATCH_SIZE) THEN assembleLoop([p EXCEPT !.t = 1])
    ELSE IF p.aborted THEN rejectedWith(p, AbortError)
    ELSE IF renderableIds(chunkAt(p.targets, IMAGE_BATCH_SIZE, p.i)) = {}
         THEN imageLoop([p EXCEPT !.i = @ + 1])
    ELSE [p EXCEPT !.pc = "imageFetch", !.batchImages = {},
                   !.requests = Append(@, "image")]

\* The downloads start behind the first image batch.
downloadsAfterBatch(p) ==
    assembleLoop([p EXCEPT !.imageUrlMap = @ \cup p.batchImages, !.t = 1])

\* Lines 411-415: the URLs of the batch are kept and the delay starts.
imageMerged(p) ==
    delayThen([p EXCEPT !.imageUrlMap = @ \cup p.batchImages], "imageDelay")

\* A catch block that throws every error again.
rethrowsEvery(p, error, step) == rejectedWith(p, error)

\* A catch block of the batch loops (lines 361-364, 390-393, 407-409) for an
\* error of the step named step; it answers a record that was rejected, or
\* one that goes on.
catchOfBatch(p, error, step) ==
    IF error.name = "AbortError" THEN rejectedWith(p, error)
    ELSE [p EXCEPT !.failedSteps = @ \cup {step},
                   !.blockedSteps = IF isTokenBlocked(error) THEN @ \cup {step} ELSE @]

\* What a batch step makes of the result of fetchWithRetry: the body of an
\* ok response is used, any other response is passed over.
batchResult(p, result, step) ==
    IF result.kind = "error" THEN catchOfBatch(p, result.error, step)
    ELSE IF ok(result.response.status) THEN p
    ELSE [p EXCEPT !.failedSteps = @ \cup {step}]

batchUsable(result) == result.kind = "response" /\ ok(result.response.status)

\* Lines 399-410: the answer to the request at scale 0.1 for failedIds.
retryStored(q, result, urls) ==
    IF q.pc = "rejected" THEN q
    ELSE imageMerged([q EXCEPT !.batchImages =
                                  IF batchUsable(result) THEN @ \cup urls ELSE @])

retryAnswered(p, result, urls) == retryStored(batchResult(p, result, "retry"), result, urls)

\* Lines 386-398: the answer to the request for the image URLs of the batch;
\* urls are the ids that the body has a URL for.
imageStored(q, result, urls, wanted) ==
    IF q.pc = "rejected" THEN q
    ELSE IF batchUsable(result) /\ wanted \subseteq urls
         THEN imageMerged([q EXCEPT !.batchImages = urls])
    ELSE [q EXCEPT !.pc = "imageRetry",
                   !.batchImages = IF batchUsable(result) THEN urls ELSE {},
                   !.requests = Append(@, "retry")]

imageAnswered(p, result, urls) ==
    imageStored(batchResult(p, result, "image"), result, urls,
                renderableIds(chunkAt(p.targets, IMAGE_BATCH_SIZE, p.i)))

\* Lines 345-352 for the chunk of index i, and the end of the loop.
textLoop(p) ==
    IF p.i >= chunkCount(p.targets, TEXT_BATCH_SIZE) THEN imageLoop([p EXCEPT !.i = 0])
    ELSE IF p.aborted THEN rejectedWith(p, AbortError)
    ELSE [p EXCEPT !.pc = "textFetch", !.requests = Append(@, "text")]

\* Lines 352-366: the answer to the request for the text of the batch; texts
\* maps the ids of the body to the text extracted from their nodes.
textStored(q, result, texts) ==
    IF q.pc = "rejected" THEN q
    ELSE delayThen([q EXCEPT !.textMap =
                                IF batchUsable(result)
                                THEN [id \in DOMAIN @ \cup DOMAIN texts |->
                                         IF id \in DOMAIN texts THEN texts[id] ELSE @[id]]
                                ELSE @],
                   "textDelay")

textAnswered(p, result, texts) == textStored(batchResult(p, result, "text"), result, texts)

\* Lines 319-334: the answer to the request for the page.  found is whether
\* the body has the page node, children are its children.
pageAnswered(p, result, found, children) ==
    IF result.kind = "error" THEN rejectedWith(p, result.error)
    ELSE IF ~ok(result.response.status) THEN rejectedWith(p, PageInfoFailed)
    ELSE IF ~found THEN rejectedWith(p, NoPageNode)
    ELSE IF Len(selectTargets(children, p.targetNodeIds)) = 0
         THEN rejectedWith(p, NoTargets)
    ELSE textLoop([p EXCEPT !.targets = selectTargets(children, p.targetNodeIds),
                            !.i = 0])

\* Lines 261-270 of getFigmaFilePages: children are those of the document.
pagesAnswered(p, result, children) ==
    IF result.kind = "error" THEN rejectedWith(p, result.error)
    ELSE IF ~ok(result.response.status) THEN rejectedWith(p, AccessFailed)
    ELSE IF Len(filterNodes(children, {"CANVAS"}, idsOfNodes(children))) = 0
         THEN rejectedWith(p, NoPages)
    ELSE resolvedWith(p, filterNodes(children, {"CANVAS"}, idsOfNodes(children)))

\* Lines 285-301 of getFigmaFrames.
framesAnswered(p, result, found, children) ==
    IF result.kind = "error" THEN rejectedWith(p, result.error)
    ELSE IF ~ok(result.response.status) THEN rejectedWith(p, LayersFailed)
    ELSE IF ~found THEN rejectedWith(p, PageNodeNotFound)
    ELSE resolvedWith(p, filterNodes(children, RENDERABLE_TYPES, idsOfNodes(children)))

\* Lines 255-261, 279-285 and 312-319: the operation is called.
keyChecked(p) ==
    IF p.fileKey = <<>> THEN rejectedWith(p, InvalidUrl)
    ELSE [p EXCEPT !.pc = "list", !.requests = Append(@, "list")]

callOperation(p, operation, fileUrl, allowList) ==
    keyChecked([p EXCEPT !.op = operation, !.targetNodeIds = allowList,
                         !.fileKey = extractFileKey(fileUrl)])

(***************************************************************************)
(* figmaService.ts (lines 39-54): delay(ms, signal).  A call is a record   *)
(* of its timer, its promise and its listener on the signal.               *)
(***************************************************************************)
\* The executor of the promise (lines 40-53): with a signal that has fired
\* it rejects and returns before setTimeout; else the timer is set, and the
\* listener is added if a signal was passed.
delay(ms, signalled, signalFired) ==
    IF signalled /\ signalFired
    THEN [ms |-> ms, signalled |-> signalled, timer |-> "none",
          promise |-> "rejected", listener |-> FALSE, error |-> AbortError]
    ELSE [ms |-> ms, signalled |-> signalled, timer |-> "pending",
          promise |-> "pending", listener |-> signalled, error |-> NoError]

\* The callback of setTimeout (lines 45-47): resolve() settles a promise
\* that is pending and is without effect on a settled one.
timerFires(d) ==
    [d EXCEPT !.timer = "fired",
              !.promise = IF @ = "pending" THEN "resolved" ELSE @]

\* A listener that rejects and leaves the timer as it is.
listenerKeepsTimer(d) ==
    [d EXCEPT !.listener = FALSE,
              !.promise = IF @ = "pending" THEN "rejected" ELSE @,
              !.error = IF d.promise = "pending" THEN AbortError ELSE @]

\* The listener of the abort event (lines 49-52), added with once: true:
\* clearTimeout is without effect on a timer that has fired, reject on a
\* promise that is settled.
abortListener(d) ==
    [d EXCEPT !.listener = FALSE,
              !.timer = IF @ = "pending" THEN "cleared" ELSE @,
              !.promise = IF @ = "pending" THEN "rejected" ELSE @,
              !.error = IF d.promise = "pending" THEN AbortError ELSE @]


(***************************************************************************)
(* generateTestCases of src/unnamed/part_001: for each of the three        *)
(* phases an expansion loop asks for pages of records, then a verification *)
(* call judges the draft.  A value of these operators is the state of the  *)
(* run at its next await.  The call and the parse of its answer are        *)
(* modelled by their outcome: the call failed, or the parse gave n records *)
(* and a hasMore value.                                                    *)
(***************************************************************************)
MAX_PAGES == 3

PHASES_EXPAND == <<"1. Data Integrity & Validation",
                   "2. Business Logic & Interdependency",
                   "3. Workflow, States & Edge Cases">>

\* n fresh records that the call named by from answered.
parsedTcs(e, n, from) ==
    [k \in 1..n |-> [id |-> e.nextId + k - 1, from |-> from, phase |-> e.i, no |-> 0]]

renumbered(tcs, startNo) ==
    [k \in 1..Len(tcs) |-> [tcs[k] EXCEPT !.no = startNo + k - 1]]

expandReturn(e) == [e EXCEPT !.pc = "done"]

RECURSIVE expansionLoop(_)

\* The loop without the page limit in its head.
loopWhileHasMore(e) ==
    IF e.hasMore
    THEN [e EXCEPT !.pc = "page", !.pageCount = @ + 1]
    ELSE IF Len(e.phaseDraftTCs) > 0 THEN [e EXCEPT !.pc = "verify"]
         ELSE [e EXCEPT !.pc = "next"]

\* The head of the for loop: the next phase starts with an empty draft.
phaseLoop(e) ==
    IF e.i < Len(PHASES_EXPAND)
    THEN expansionLoop([e EXCEPT !.phaseDraftTCs = <<>>, !.hasMore = TRUE,
                                 !.pageCount = 0, !.pageLog = <<>>])
    ELSE expandReturn(e)

\* The head of the while loop, and behind the loop the test of step 2.
expansionLoop(e) ==
    IF e.hasMore /\ e.pageCount < MAX_PAGES
    THEN [e EXCEPT !.pc = "page", !.pageCount = @ + 1]
    ELSE IF Len(e.phaseDraftTCs) > 0 THEN [e EXCEPT !.pc = "verify"]
         ELSE [e EXCEPT !.pc = "next"]

endOfPhase(e) == phaseLoop([e EXCEPT !.i = @ + 1])

settle(e) == IF e.pc = "next" THEN endOfPhase(e) ELSE e

\* The expansion call answered and the answer parsed to n records.
pageParsed(e, n, more) ==
    LET tcs == parsedTcs(e, n, "expansion")
        e1  == [e EXCEPT !.phaseDraftTCs = IF n > 0 THEN @ \o tcs ELSE @,
                         !.nextId = @ + n,
                         !.hasMore = IF n = 0 THEN FALSE ELSE more,
                         !.pageLog = Append(@, [failed |-> FALSE, n |-> n, hasMore |-> more])]
    IN  settle(expansionLoop(e1))

\* The expansion call failed after its retries, or the parse raised.
pageFailed(e) ==
    settle(expansionLoop([e EXCEPT !.hasMore = FALSE,
                           !.pageLog = Append(@, [failed |-> TRUE, n |-> 0, hasMore |-> FALSE])]))

\* The verification call answered with n records.
verified(e, n) ==
    LET tcs == renumbered(parsedTcs(e, n, "verification"), e.currentStartNo)
    IN  endOfPhase([e EXCEPT !.accumulatedTestCases = IF n > 0 THEN @ \o tcs ELSE @,
                             !.currentStartNo = @ + n,
                             !.nextId = @ + n])

\* The verification call failed: the draft is used.
verifyFailed(e) ==
    LET tcs == renumbered(e.phaseDraftTCs, e.currentStartNo)
    IN  endOfPhase([e EXCEPT !.accumulatedTestCases = @ \o tcs,
                             !.currentStartNo = @ + Len(tcs)])

expandStart ==
    phaseLoop([pc |-> "start", i |-> 0, hasMore |-> TRUE, pageCount |-> 0,
               phaseDraftTCs |-> <<>>, accumulatedTestCases |-> <<>>,
               currentStartNo |-> 1, nextId |-> 1, pageLog |-> <<>>])

(***************************************************************************)
(* generateTestCases of src/unnamed/part_000: each of the four phases      *)
(* makes a draft call; a DEEP_DIVE phase with a non-empty draft makes an   *)
(* audit call behind it.  Both calls stand inside the one try of the       *)
(* phase, whose catch only logs.  Calls are modelled by their outcome.     *)
(***************************************************************************)
PHASES_AUDIT == <<[name |-> "1. Data Integrity & Validation",      mode |-> "STANDARD"],
                  [name |-> "2. Business Logic & Interdependency", mode |-> "DEEP_DIVE"],
                  [name |-> "3. Workflow & State Lifecycle",       mode |-> "DEEP_DIVE"],
                  [name |-> "4. Edge Cases & Resilience",          mode |-> "DEEP_DIVE"]>>

currentPhase(a) == PHASES_AUDIT[a.i + 1]

answeredTcs(a, n, from) ==
    [k \in 1..n |-> [id |-> a.nextId + k - 1, from |-> from, phase |-> a.i]]

\* The head of the for loop.
auditPhaseLoop(a) ==
    IF a.i < Len(PHASES_AUDIT)
    THEN [a EXCEPT !.pc = "draft", !.phaseTCs = <<>>]
    ELSE [a EXCEPT !.pc = "done"]

\* The end of the loop body; the history records what the phase did: its draft,
\* what became of its audit ("noDraft": the draft call failed, "none": no audit
\* call, "failed", "empty", "records") and the records it appended.
phaseEnds(a, draft, audit, appended) ==
    auditPhaseLoop([a EXCEPT !.i = @ + 1,
                             !.log = Append(@, [mode |-> currentPhase(a).mode,
                                                draft |-> draft, audit |-> audit,
                                                appended |-> appended])])

\* "Normalize and Append".
normalizeAndAppend(a, draft, audit) ==
    phaseEnds([a EXCEPT !.accumulatedTestCases = @ \o a.phaseTCs],
              draft, audit, a.phaseTCs)

\* The catch of the phase: it logs and the loop goes on.
phaseCatch(a, draft, audit) == phaseEnds(a, draft, audit, <<>>)

\* The draft call answered with n records.
draftParsed(a, n) ==
    LET tcs == answeredTcs(a, n, "draft")
        a1  == [a EXCEPT !.phaseTCs = tcs, !.nextId = @ + n]
    IN  IF currentPhase(a).mode = "DEEP_DIVE" /\ Len(tcs) > 0
        THEN [a1 EXCEPT !.pc = "audit"]
        ELSE normalizeAndAppend(a1, tcs, "none")

\* The draft call failed after its retries.
draftFailed(a) == phaseCatch(a, <<>>, "noDraft")

\* The audit call answered with n records.
auditParsed(a, n) ==
    LET tcs == answeredTcs(a, n, "audit")
    IN  normalizeAndAppend([a EXCEPT !.phaseTCs = IF n > 0 THEN tcs ELSE @,
                                     !.nextId = @ + n],
                           a.phaseTCs, IF n > 0 THEN "records" ELSE "empty")

\* The audit call failed after its retries: the error leaves the try.
auditFailed(a) == phaseCatch(a, a.phaseTCs, "failed")

auditStart ==
    auditPhaseLoop([pc |-> "start", i |-> 0, phaseTCs |-> <<>>,
                    accumulatedTestCases |-> <<>>, nextId |-> 1, log |-> <<>>])

(***************************************************************************)
(* The projects of App (App.tsx, second version, lines 89-269).  A value   *)
(* app holds the React state of App: projects, currentProject and          *)
(* generationStates.  A record of a project is known by the run that       *)
(* returned it and by its number.                                          *)
(***************************************************************************)
NoProject == [id |-> 0, testCases |-> <<>>, questions |-> 0]

NoRun == [kind |-> "none", projectId |-> 0, seen |-> 0, run |-> 0]

ProjectIds == 1..MaxProjects

\* What a service call resolves with for n records: postProcessTestCases has
\* numbered them (geminiService.ts, lines 220-223); questions names the run.
resultOf(run, n) ==
    [testCases |-> renumber([k \in 1..n |-> [run |-> run.run, no |-> 0]]),
     questions |-> run.run]

\* setProjectGenState (lines 135-140).
setProjectGenState(app, projectId, isGenerating, message) ==
    [app EXCEPT !.generationStates[projectId] =
                    [isGenerating |-> isGenerating, message |-> message]]

\* setProjects(prev => prev.map(p => p.id === projectId ? {...p, ...} : p)).
writeProject(list, projectId, testCases, questions) ==
    [k \in 1..Len(list) |->
        IF list[k].id = projectId
        THEN [list[k] EXCEPT !.testCases = testCases, !.questions = questions]
        ELSE list[k]]

projectOf(list, projectId) ==
    list[CHOOSE k \in 1..Len(list) : list[k].id = projectId]

\* handleSetupComplete (lines 101-117): the new project stands in front.
handleSetupComplete(app, id) ==
    LET newProject == [id |-> id, testCases |-> <<>>, questions |-> 0]
    IN  [app EXCEPT !.projects = <<newProject>> \o @,
                    !.currentProject = newProject]

\* handleProjectSelect (lines 119-122).
handleProjectSelect(app, project) == [app EXCEPT !.currentProject = project]

\* handleUpdateProject (lines 124-131) with the project that handleSave of
\* Workspace hands over: the shown project with the shown records.
handleUpdateProject(app, updated) ==
    LET a1 == [app EXCEPT !.projects =
                   writeProject(@, updated.id, updated.testCases, updated.questions)]
    IN  IF app.currentProject # NoProject /\ app.currentProject.id = updated.id
        THEN [a1 EXCEPT !.currentProject = updated]
        ELSE a1

\* handleGenerateTCs behind its await (lines 149-174) for the value result:
\* the records are appended in the list and, when the currentProject that
\* the handler saw at its call is the project of the run, in the project
\* that is current now.
generateResolved(app, run, result) ==
    LET p  == projectOf(app.projects, run.projectId)
        a1 == [app EXCEPT !.projects =
                   writeProject(@, run.projectId, p.testCases \o result.testCases,
                                result.questions)]
        a2 == IF run.seen = run.projectId /\ a1.currentProject # NoProject
              THEN [a1 EXCEPT !.currentProject.testCases = @ \o result.testCases,
                              !.currentProject.questions = result.questions]
              ELSE a1
    IN  setProjectGenState(a2, run.projectId, FALSE, "completed")

\* handleRefineTCs behind its await (lines 193-222): no record, no change;
\* else the records replace the stored ones.
refineResolved(app, run, result) ==
    IF Len(result.testCases) = 0
    THEN setProjectGenState(app, run.projectId, FALSE, "noRecords")
    ELSE LET a1 == [app EXCEPT !.projects =
                        writeProject(@, run.projectId, result.testCases,
                                     result.questions)]
             a2 == IF run.seen = run.projectId /\ a1.currentProject # NoProject
                   THEN [a1 EXCEPT !.currentProject.testCases = result.testCases,
                                   !.currentProject.questions = result.questions]
                   ELSE a1
         IN  setProjectGenState(a2, run.projectId, FALSE, "completed")

\* The catch of either handler (lines 176-179, 224-227).
runRejected(app, run) == setProjectGenState(app, run.projectId, FALSE, "failed")

runResolved(app, run, result) ==
    IF run.kind = "generate" THEN generateResolved(app, run, result)
    ELSE refineResolved(app, run, result)

(***************************************************************************)
(* The design import of ProjectSetup (ProjectSetup.tsx, lines 40-236).     *)
(* A value s holds the state of the component and its abortControllerRef;  *)
(* the controller of a handler call carries the number of the call.        *)
(***************************************************************************)
\* if (abortControllerRef.current) abortControllerRef.current.abort();
\* const controller = new AbortController(); abortControllerRef.current =
\* controller (lines 116-118, 144-146, 191-193).
newController(s) ==
    [s EXCEPT !.abortedControllers =
                  IF s.abortControllerRef # 0 THEN @ \cup {s.abortControllerRef} ELSE @,
              !.abortControllerRef = s.handlerCalls + 1,
              !.handlerCalls = @ + 1,
              !.overlapped = @ \/ s.pendingOps # {}]

\* setIsLoading(true); setErrorMsg(null); the service is called and awaited.
awaitService(s, kind) ==
    [s EXCEPT !.isLoading = TRUE, !.errorMsg = "none",
              !.pendingOps = @ \cup {[id |-> s.abortControllerRef, kind |-> kind]}]

\* handleFetchPages (lines 115-140) up to its await; filled tells that token
\* and URL are filled in.
handleFetchPages(s, filled) ==
    IF ~filled THEN [newController(s) EXCEPT !.errorMsg = "input"]
    ELSE awaitService(newController(s), "pages")

\* handlePageSelect (lines 143-168) up to its await.
handlePageSelect(s) == awaitService(newController(s), "frames")

\* handleProcessLayers (lines 187-223) up to its await.
handleProcessLayers(s) ==
    IF s.selectedLayers = 0 THEN [s EXCEPT !.errorMsg = "input"]
    ELSE [awaitService(newController(s), "process") EXCEPT !.figmaStep = "PROCESSING"]

\* The finally block of the three handlers (lines 135-139, 163-167, 218-222).
finallyBlock(s, op) ==
    [s EXCEPT !.isLoading = FALSE, !.abortControllerRef = 0,
              !.pendingOps = @ \ {op}]

\* The service resolved: the try block behind the await, then finally;
\* layers is the number of frames that getFigmaFrames answered.
operationResolved(s, op, layers) ==
    finallyBlock(
        CASE op.kind = "pages"  -> [s EXCEPT !.figmaStep = "SELECT_PAGE"]
          [] op.kind = "frames" -> [s EXCEPT !.figmaStep = "SELECT_LAYER",
                                             !.selectedLayers = layers]
          [] OTHER              -> [s EXCEPT !.figmaStep = "INPUT"],
        op)

\* The service rejected with an error that is no AbortError: catch, finally.
operationFailed(s, op) ==
    finallyBlock(
        IF op.kind = "process"
        THEN [s EXCEPT !.errorMsg = "failed", !.figmaStep = "SELECT_LAYER"]
        ELSE [s EXCEPT !.errorMsg = "failed"],
        op)

\* The service rejected with the AbortError: the catch returns, then finally.
operationAborted(s, op) == finallyBlock(s, op)

\* handleCancelFigma (lines 225-236).
handleCancelFigma(s) ==
    [s EXCEPT !.abortedControllers =
                  IF s.abortControllerRef # 0 THEN @ \cup {s.abortControllerRef} ELSE @,
              !.abortControllerRef = 0,
              !.isLoading = FALSE,
              !.figmaStep = IF @ = "SELECT_LAYER" THEN "SELECT_PAGE" ELSE "INPUT"]

\* The cleanup of the effect (lines 45-51) when the component unmounts.
unmountCleanup(s) ==
    [s EXCEPT !.abortedControllers =
                  IF s.abortControllerRef # 0 THEN @ \cup {s.abortControllerRef} ELSE @,
              !.mounted = FALSE]

(***************************************************************************)
(* The fragments that response texts are built of in SpecRecover.          *)
(***************************************************************************)
\* {"no":1,"title":"A"}: a complete record object
FragV1 ==
    <<"{", "\"", "n", "o", "\"", ":", "1", ",", "\"", "t", "i", "t", "l",
      "e", "\"", ":", "\"", "A", "\"", "}">>

\* {"no":2,"title":"B: a record object cut off inside its title
FragT2 ==
    <<"{", "\"", "n", "o", "\"", ":", "2", ",", "\"", "t", "i", "t", "l",
      "e", "\"", ":", "\"", "B">>

\* {"no":3,"title":"C}"}: a complete record object whose title holds a closing brace
FragVB ==
    <<"{", "\"", "n", "o", "\"", ":", "3", ",", "\"", "t", "i", "t", "l",
      "e", "\"", ":", "\"", "C", "}", "\"", "}">>

\* {"testCases":[: the opening of the wrapper object
FragWO ==
    <<"{", "\"", "t", "e", "s", "t", "C", "a", "s", "e", "s", "\"", ":", "[">>

\* ]}: the closing of the wrapper object
FragWC ==
    <<"]", "}">>

\* {"no":4 "title":"D","steps":"s": a flat chunk: a comma is missing and the closing brace is cut off
FragF4 ==
    <<"{", "\"", "n", "o", "\"", ":", "4", " ", "\"", "t", "i", "t", "l",
      "e", "\"", ":", "\"", "D", "\"", ",", "\"", "s", "t", "e", "p", "s",
      "\"", ":", "\"", "s", "\"">>

\* }: a closing brace
FragCB ==
    <<"}">>

\* {: an opening brace
FragOB ==
    <<"{">>

\* {"testCases":[null]}: a complete wrapper whose only element is null
FragWN ==
    <<"{", "\"", "t", "e", "s", "t", "C", "a", "s", "e", "s", "\"", ":",
      "[", "n", "u", "l", "l", "]", "}">>

\* three backquotes: a markdown code fence
FragFN ==
    FENCE

\* {"no":5,"title":"}\"{\\"}: a complete record object whose title holds a
\* closing brace, an escaped quote, an opening brace and an escaped backslash
FragVE ==
    <<"{", "\"", "n", "o", "\"", ":", "5", ",", "\"", "t", "i", "t", "l",
      "e", "\"", ":", "\"", "}", "\\", "\"", "{", "\\", "\\", "\"", "}">>

FragNames == {"V1", "T2", "VB", "WO", "WC", "F4", "CB", "OB", "WN", "FN", "VE"}

FragText(f) ==
    CASE f = "V1" -> FragV1
      [] f = "T2" -> FragT2
      [] f = "VB" -> FragVB
      [] f = "WO" -> FragWO
      [] f = "WC" -> FragWC
      [] f = "F4" -> FragF4
      [] f = "CB" -> FragCB
      [] f = "OB" -> FragOB
      [] f = "WN" -> FragWN
      [] f = "FN" -> FragFN
      [] f = "VE" -> FragVE
(***************************************************************************)
(* The response texts that the language model answers with in Spec.        *)
(***************************************************************************)
\* two records whose numbering restarts at 1; the second sorts first:
\*   {"testCases":[{"no":1,"title":"A","depth1":"b"},{"no":2,"title":"B","depth1":"a"}]}
RespTwo ==
    <<"{", "\"", "t", "e", "s", "t", "C", "a", "s", "e", "s", "\"", ":",
      "[", "{", "\"", "n", "o", "\"", ":", "1", ",", "\"", "t", "i", "t",
      "l", "e", "\"", ":", "\"", "A", "\"", ",", "\"", "d", "e", "p", "t",
      "h", "1", "\"", ":", "\"", "b", "\"", "}", ",", "{", "\"", "n", "o",
      "\"", ":", "2", ",", "\"", "t", "i", "t", "l", "e", "\"", ":", "\"",
      "B", "\"", ",", "\"", "d", "e", "p", "t", "h", "1", "\"", ":", "\"",
      "a", "\"", "}", "]", "}">>

\* a response cut off inside the second element of testCases:
\*   {"testCases":[{"no":1,"title":"A"},{"no":2,"title":"B"
RespTruncated ==
    <<"{", "\"", "t", "e", "s", "t", "C", "a", "s", "e", "s", "\"", ":",
      "[", "{", "\"", "n", "o", "\"", ":", "1", ",", "\"", "t", "i", "t",
      "l", "e", "\"", ":", "\"", "A", "\"", "}", ",", "{", "\"", "n", "o",
      "\"", ":", "2", ",", "\"", "t", "i", "t", "l", "e", "\"", ":", "\"",
      "B", "\"">>

\* a fenced response with untrimmed fields, a question and a summary:
\*   (backquote)(backquote)(backquote)json(new line){"testCases":[{"no":7,"Title":" C ","steps":"1. x 2. y","depth1":" a"}],"questions":["q"],"summary":"S"}(new line)(backquote)(backquote)(backquote)
RespFenced ==
    <<BACKQUOTE, BACKQUOTE, BACKQUOTE, "j", "s", "o", "n", NL, "{", "\"",
      "t", "e", "s", "t", "C", "a", "s", "e", "s", "\"", ":", "[", "{",
      "\"", "n", "o", "\"", ":", "7", ",", "\"", "T", "i", "t", "l", "e",
      "\"", ":", "\"", SP, "C", SP, "\"", ",", "\"", "s", "t", "e", "p",
      "s", "\"", ":", "\"", "1", ".", SP, "x", SP, "2", ".", SP, "y", "\"",
      ",", "\"", "d", "e", "p", "t", "h", "1", "\"", ":", "\"", SP, "a", "\"",
      "}", "]", ",", "\"", "q", "u", "e", "s", "t", "i", "o", "n", "s",
      "\"", ":", "[", "\"", "q", "\"", "]", ",", "\"", "s", "u", "m", "m",
      "a", "r", "y", "\"", ":", "\"", "S", "\"", "}", NL, BACKQUOTE,
      BACKQUOTE, BACKQUOTE>>

\* a response without records:
\*   {"testCases":[]}
RespEmpty ==
    <<"{", "\"", "t", "e", "s", "t", "C", "a", "s", "e", "s", "\"", ":",
      "[", "]", "}">>

\* a response without records that carries a summary:
\*   {"testCases":[],"summary":"S"}
RespNoRecords ==
    <<"{", "\"", "t", "e", "s", "t", "C", "a", "s", "e", "s", "\"", ":",
      "[", "]", ",", "\"", "s", "u", "m", "m", "a", "r", "y", "\"", ":",
      "\"", "S", "\"", "}">>

\* a record whose steps are a number:
\*   {"testCases":[{"no":1,"steps":5}]}
RespBadSteps ==
    <<"{", "\"", "t", "e", "s", "t", "C", "a", "s", "e", "s", "\"", ":",
      "[", "{", "\"", "n", "o", "\"", ":", "1", ",", "\"", "s", "t", "e",
      "p", "s", "\"", ":", "5", "}", "]", "}">>

\* a record whose depth1 is a number:
\*   {"testCases":[{"no":3,"title":"D","depth1":5}]}
RespBadDepth ==
    <<"{", "\"", "t", "e", "s", "t", "C", "a", "s", "e", "s", "\"", ":",
      "[", "{", "\"", "n", "o", "\"", ":", "3", ",", "\"", "t", "i", "t",
      "l", "e", "\"", ":", "\"", "D", "\"", ",", "\"", "d", "e", "p", "t",
      "h", "1", "\"", ":", "5", "}", "]", "}">>

ResponseNames ==
    {"Two", "Truncated", "Fenced", "Empty", "NoRecords", "BadSteps", "BadDepth"}

ResponseText(r) ==
    CASE r = "Two"       -> RespTwo
      [] r = "Truncated" -> RespTruncated
      [] r = "Fenced"    -> RespFenced
      [] r = "Empty"     -> RespEmpty
      [] r = "NoRecords" -> RespNoRecords
      [] r = "BadSteps"  -> RespBadSteps
      [] r = "BadDepth"  -> RespBadDepth


(***************************************************************************)
(* The initial values of the three groups of variables.                    *)
(***************************************************************************)
NoAnswer == [result |-> EmptyResult, startIndex |-> 0, iterations |-> 0,
             opened |-> <<>>, threw |-> FALSE]

PostStart ==
    /\ tcInput = <<>>
    /\ tcOnce = <<>>
    /\ tcTwice = <<>>
    /\ postPc = "build"

RecStart ==
    /\ respText = <<>>
    /\ frags = <<>>
    /\ recPc = "build"
    /\ bracketsOut = NoAnswer
    /\ regexOut = EmptyResult
    /\ recovered = [result |-> EmptyResult, threw |-> FALSE]

(***************************************************************************)
(* SpecPost: record lists are built record by record and then processed.   *)
(***************************************************************************)
DepthOneVals   == { JStr(<<"a">>), JStr(<<SP, "b">>) }
DepthTwoVals   == { JStr(<<>>), JStr(<<"a">>) }
DepthThreeVals == { JUndefined, JStr(<<"a", SP>>) }
NoVals         == { 0, 2 }

\* The caller appends one more record; its id is fresh.
AddRecord ==
    /\ postPc = "build"
    /\ Len(tcInput) < MaxRecs
    /\ \E n \in NoVals, d1 \in DepthOneVals, d2 \in DepthTwoVals, d3 \in DepthThreeVals :
          tcInput' = Append(tcInput,
                            [id |-> Len(tcInput) + 1, no |-> n,
                             title |-> JStr(<<"t">>),
                             depth1 |-> d1, depth2 |-> d2, depth3 |-> d3,
                             precondition |-> JStr(<<>>), steps |-> JStr(<<"s">>),
                             expectedResult |-> JStr(<<"r">>)])
    /\ UNCHANGED <<tcOnce, tcTwice, postPc, recVars, genVars, fetchVars, appVars, impVars,
                   delayVars, expVars, audVars, projVars, setupVars>>

PostProcessOnce ==
    /\ postPc = "build"
    /\ tcOnce' = postProcessTestCases(tcInput)
    /\ postPc' = "once"
    /\ UNCHANGED <<tcInput, tcTwice, recVars, genVars, fetchVars, appVars, impVars, delayVars,
                   expVars, audVars, projVars, setupVars>>

PostProcessTwice ==
    /\ postPc = "once"
    /\ tcTwice' = postProcessTestCases(tcOnce)
    /\ postPc' = "twice"
    /\ UNCHANGED <<tcInput, tcOnce, recVars, genVars, fetchVars, appVars, impVars, delayVars,
                   expVars, audVars, projVars, setupVars>>

PostNext == AddRecord \/ PostProcessOnce \/ PostProcessTwice

(***************************************************************************)
(* SpecRecover: a response text is built of fragments; then Strategy A,    *)
(* Strategy B and recoverTruncatedJson are applied to it.                  *)
(***************************************************************************)
AppendFragment ==
    /\ recPc = "build"
    /\ Len(frags) < MaxFrags
    /\ \E f \in FragNames :
          /\ respText' = respText \o FragText(f)
          /\ frags' = Append(frags, f)
    /\ UNCHANGED <<recPc, bracketsOut, regexOut, recovered, postVars, genVars, fetchVars, appVars, impVars,
                   delayVars, expVars, audVars, projVars, setupVars>>

ApplyBrackets ==
    /\ recPc = "build"
    /\ bracketsOut' = parseViaBrackets(stripFences(respText), EmptyResult)
    /\ recPc' = "brackets"
    /\ UNCHANGED <<respText, frags, regexOut, recovered, postVars, genVars, fetchVars, appVars, impVars,
                   delayVars, expVars, audVars, projVars, setupVars>>

ApplyRegex ==
    /\ recPc = "brackets"
    /\ regexOut' = parseViaRegex(stripFences(respText), EmptyResult)
    /\ recPc' = "regex"
    /\ UNCHANGED <<respText, frags, bracketsOut, recovered, postVars, genVars, fetchVars, appVars, impVars,
                   delayVars, expVars, audVars, projVars, setupVars>>

Recover ==
    /\ recPc = "regex"
    /\ recovered' = recoverTruncatedJson(respText)
    /\ recPc' = "recovered"
    /\ UNCHANGED <<respText, frags, bracketsOut, regexOut, postVars, genVars, fetchVars, appVars, impVars,
                   delayVars, expVars, audVars, projVars, setupVars>>

RecNext == AppendFragment \/ ApplyBrackets \/ ApplyRegex \/ Recover
NoPhase == [phase |-> -1, response |-> "none", outcome |-> "none",
            direct |-> FALSE, mapped |-> <<>>, batch |-> <<>>]

GenStart ==
    /\ genPc = "start"
    /\ phaseI = 0
    /\ apiAttempts = 0
    /\ callTrace = <<>>
    /\ accumulatedTestCases = <<>>
    /\ accumulatedQuestions = <<>>
    /\ finalSummary = <<>>
    /\ currentStartNo = 1
    /\ nextId = 1
    /\ genResult = [testCases |-> <<>>, questions |-> <<>>, summary |-> <<>>]
    /\ phaseLog = <<>>
    /\ batchCounts = <<>>
    /\ lastPhase = NoPhase

(***************************************************************************)
(* Spec: generateTestCases.  The prompts and the parts sent to the model   *)
(* do not reach the state; what the model answers is the input.            *)
(***************************************************************************)
\* getClient (lines 5-11): without an API key it throws and generateTestCases
\* rejects before the loop.
GetClient ==
    /\ genPc = "start"
    /\ \E apiKey \in BOOLEAN : genPc' = IF apiKey THEN "loop" ELSE "noClient"
    /\ UNCHANGED <<phaseI, apiAttempts, callTrace, accumulatedTestCases,
                   accumulatedQuestions, finalSummary, currentStartNo, nextId,
                   genResult, phaseLog, batchCounts, lastPhase, postVars, recVars,
                   fetchVars, appVars, impVars, delayVars, expVars, audVars, projVars,
                   setupVars>>

\* One pass of the for loop begins (lines 390-419): callGeminiWithRetry is
\* entered and sends its first request.
StartPhase ==
    /\ genPc = "loop"
    /\ phaseI < Len(PHASES)
    /\ genPc' = "request"
    /\ apiAttempts' = 0
    /\ callTrace' = <<"request">>
    /\ phaseLog' = Append(phaseLog, [ev |-> "start", phase |-> phaseI])
    /\ UNCHANGED <<phaseI, accumulatedTestCases, accumulatedQuestions, finalSummary,
                   currentStartNo, nextId, genResult, batchCounts, lastPhase,
                   postVars, recVars, fetchVars, appVars, impVars, delayVars, expVars,
                   audVars, projVars, setupVars>>

\* The phase ends: what it leaves behind, and the histories.
EndPhase(out, r) ==
    /\ genPc' = "loop"
    /\ apiAttempts' = 0
    /\ callTrace' = <<>>
    /\ phaseI' = out.i
    /\ accumulatedTestCases' = out.acc
    /\ accumulatedQuestions' = out.questions
    /\ finalSummary' = out.summary
    /\ currentStartNo' = out.startNo
    /\ nextId' = out.nextId
    /\ phaseLog' = Append(phaseLog, [ev |-> "end", phase |-> phaseI])
    /\ batchCounts' = Append(batchCounts, Len(out.batch))
    /\ lastPhase' = [phase |-> phaseI, response |-> r, outcome |-> out.outcome,
                     direct |-> out.direct, mapped |-> out.mapped,
                     batch |-> out.batch]
    /\ UNCHANGED <<genResult, postVars, recVars, fetchVars, appVars, impVars, delayVars,
                   expVars, audVars, projVars, setupVars>>

\* The model answers with a text: callGeminiWithRetry returns it (line 289)
\* and the phase processes it (lines 421-455).
RespondText ==
    /\ genPc = "request"
    /\ \E r \in ResponseNames :
          EndPhase(phaseBody(ResponseText(r), phaseI, accumulatedTestCases,
                             accumulatedQuestions, finalSummary, currentStartNo,
                             nextId), r)

\* The request is rejected, or its text is empty and line 291 throws: both
\* arrive in the catch of lines 292-297, which counts the attempt; while
\* attempts are left a delay follows, after the last one callGeminiWithRetry
\* throws (line 299) and the catch of line 457 ends the phase.
AttemptFails ==
    /\ genPc = "request"
    /\ \E failure \in {"exception", "emptyText"} :
          IF attemptsLeft(apiAttempts + 1)
          THEN /\ apiAttempts' = apiAttempts + 1
               /\ callTrace' = callTrace \o <<caught(failure), "delay">>
               /\ genPc' = "delay"
               /\ UNCHANGED <<phaseI, accumulatedTestCases, accumulatedQuestions,
                              finalSummary, currentStartNo, nextId, genResult,
                              phaseLog, batchCounts, lastPhase, postVars, recVars,
                              fetchVars, appVars, impVars, delayVars, expVars, audVars,
                   projVars, setupVars>>
          ELSE EndPhase([i |-> nextAfterCatch(phaseI), acc |-> accumulatedTestCases,
                         questions |-> accumulatedQuestions, summary |-> finalSummary,
                         startNo |-> currentStartNo, nextId |-> nextId,
                         outcome |-> "callFailed", direct |-> FALSE, mapped |-> <<>>,
                         batch |-> <<>>],
                        "none")

\* delay(3000) is over (line 296): the next request is sent.
DelayElapsed ==
    /\ genPc = "delay"
    /\ genPc' = "request"
    /\ callTrace' = Append(callTrace, "request")
    /\ UNCHANGED <<phaseI, apiAttempts, accumulatedTestCases, accumulatedQuestions,
                   finalSummary, currentStartNo, nextId, genResult, phaseLog,
                   batchCounts, lastPhase, postVars, recVars,
                   fetchVars, appVars, impVars, delayVars, expVars, audVars, projVars,
                   setupVars>>

\* The loop is over (lines 467-474): sort, renumber and answer; a TypeError
\* of the comparator rejects the promise of generateTestCases.
Finish ==
    /\ genPc = "loop"
    /\ phaseI >= Len(PHASES)
    /\ IF sortRaises(accumulatedTestCases)
       THEN genPc' = "rejected" /\ UNCHANGED genResult
       ELSE /\ genPc' = "done"
            /\ genResult' =
                 LET finalTestCases == postProcessTestCases(accumulatedTestCases) IN
                 [testCases |-> finalTestCases,
                  questions |-> uniqueFrom(accumulatedQuestions, 1, <<>>),
                  summary |-> IF finalSummary # <<>> THEN finalSummary
                              ELSE defaultSummary(Len(finalTestCases))]
    /\ UNCHANGED <<phaseI, apiAttempts, callTrace, accumulatedTestCases,
                   accumulatedQuestions, finalSummary, currentStartNo, nextId,
                   phaseLog, batchCounts, lastPhase, postVars, recVars,
                   fetchVars, appVars, impVars, delayVars, expVars, audVars, projVars,
                   setupVars>>

Next == GetClient \/ StartPhase \/ RespondText \/ AttemptFails \/ DelayElapsed \/ Finish

(***************************************************************************)
(* SpecFetch: one call of fetchWithRetry, or one call of fetchViaProxy for *)
(* an image, with the signal of an AbortController.  What the relays       *)
(* answer is the input.                                                    *)
(***************************************************************************)
\* The statuses that a relay answers with.
Statuses == {200, 403, 404, 429, 500, 503}

\* The Retry-After headers of a 429: absent, seconds, and a text that is no
\* number.
RetryAfterHeaders ==
    {JNull, JStr(<<"5">>), JStr(<<"6", "0">>), JStr(<<"6", "1">>),
     JStr(<<"3", "6", "0", "1">>), JStr(<<"s", "o", "o", "n">>)}

\* The entries of the history answers: a response, or a failure on the
\* network.
Answered(status, retryAfter) ==
    [status |-> status, retryAfter |-> retryAfter, threw |-> FALSE]

Unreachable == [status |-> 0, retryAfter |-> JNull, threw |-> TRUE]

\* The variables of the call as a record, and back.
FetchState ==
    [pc |-> fetchPc, isImage |-> isImage, byRetry |-> byRetry, i |-> relayI,
     lastError |-> lastError, aborted |-> aborted, contacted |-> contacted,
     answers |-> answers, relayWaits |-> relayWaits, retries |-> retries,
     defaultBackoff |-> defaultBackoff, retryWaits |-> retryWaits,
     proxyCalls |-> proxyCalls, result |-> fetchResult]

SetFetch(s) ==
    /\ fetchPc' = s.pc
    /\ isImage' = s.isImage
    /\ byRetry' = s.byRetry
    /\ relayI' = s.i
    /\ lastError' = s.lastError
    /\ aborted' = s.aborted
    /\ contacted' = s.contacted
    /\ answers' = s.answers
    /\ relayWaits' = s.relayWaits
    /\ retries' = s.retries
    /\ defaultBackoff' = s.defaultBackoff
    /\ retryWaits' = s.retryWaits
    /\ proxyCalls' = s.proxyCalls
    /\ fetchResult' = s.result
    /\ UNCHANGED <<postVars, recVars, genVars, appVars, impVars, delayVars, expVars, audVars,
                   projVars, setupVars>>

FetchStart ==
    /\ fetchPc = "idle"
    /\ isImage = FALSE
    /\ byRetry = FALSE
    /\ relayI = 0
    /\ lastError = NoError
    /\ aborted = FALSE
    /\ contacted = <<>>
    /\ answers = <<>>
    /\ relayWaits = <<>>
    /\ retries = DEFAULT_RETRIES
    /\ defaultBackoff = DEFAULT_BACKOFF
    /\ retryWaits = <<>>
    /\ proxyCalls = 0
    /\ fetchResult = NoResult

\* fetchWithRetry(url, headers, signal) is called with the default retries
\* and defaultBackoff (lines 156-164).
CallFetchWithRetry ==
    /\ fetchPc = "idle"
    /\ SetFetch(callProxy([FetchState EXCEPT !.byRetry = TRUE], FALSE))

\* fetchViaProxy(url, {}, signal, true) is called for an image (line 228).
CallFetchViaProxy ==
    /\ fetchPc = "idle"
    /\ SetFetch(callProxy([FetchState EXCEPT !.byRetry = FALSE], TRUE))

\* controller.abort(): the signal fires, before the call or while it waits.
Abort ==
    /\ fetchPc \in {"idle", "fetching", "relayDelay", "backoff", "errorDelay"}
    /\ ~aborted
    /\ SetFetch([FetchState EXCEPT !.aborted = TRUE])

\* The relay answers the pending request (lines 106-139).
RelayAnswers ==
    /\ fetchPc = "fetching"
    /\ ~aborted
    /\ \E status \in Statuses :
       \E retryAfter \in (IF status = 429 THEN RetryAfterHeaders ELSE {JNull}) :
          SetFetch(onResponse(
              [FetchState EXCEPT !.answers = Append(@, Answered(status, retryAfter))],
              Response(status, retryAfter)))

\* The pending request fails on the network (lines 141-147).
RelayUnreachable ==
    /\ fetchPc = "fetching"
    /\ ~aborted
    /\ SetFetch(onFetchError([FetchState EXCEPT !.answers = Append(@, Unreachable)],
                             NetworkError(relayI)))

\* The signal has no effect on the pending request, which fails on the
\* network.
FetchIgnoresAbort ==
    /\ fetchPc = "fetching"
    /\ aborted
    /\ SetFetch(onFetchError([FetchState EXCEPT !.answers = Append(@, Unreachable)],
                             NetworkError(relayI)))

\* The signal has fired: fetch rejects the pending request with an
\* AbortError (lines 141-142).
FetchAborted ==
    /\ fetchPc = "fetching"
    /\ aborted
    /\ SetFetch(onFetchError(FetchState, AbortError))

\* delay(500, signal) is over (lines 124-125, 147): the next relay.
RelayDelayElapsed ==
    /\ fetchPc = "relayDelay"
    /\ ~aborted
    /\ SetFetch(nextRelay(FetchState))

\* The signal has fired: delay(500, signal) rejects (lines 49-52).  The delay
\* of line 124 is in the try block, whose catch throws the AbortError again;
\* the delay of line 147 is outside it.
RelayDelayAborted ==
    /\ fetchPc = "relayDelay"
    /\ aborted
    /\ SetFetch(proxyThrows(FetchState, AbortError))

\* delay(waitTimeMs, signal) is over (lines 190-192).
BackoffElapsed ==
    /\ fetchPc = "backoff"
    /\ ~aborted
    /\ SetFetch(retryAfterBackoff(FetchState, retryWaits[Len(retryWaits)]))

\* delay(2000, signal) is over (lines 203-204).
ErrorDelayElapsed ==
    /\ fetchPc = "errorDelay"
    /\ ~aborted
    /\ SetFetch(retryAfterError(FetchState))

\* The signal has fired: the delay of fetchWithRetry rejects.  The delay of
\* line 190 is in the try block, whose catch throws the AbortError again
\* (line 197); the delay of line 203 is in the catch block itself.
RetryDelayAborted ==
    /\ fetchPc \in {"backoff", "errorDelay"}
    /\ aborted
    /\ SetFetch(rejected(FetchState, AbortError))

FetchNext ==
    \/ CallFetchWithRetry \/ CallFetchViaProxy \/ Abort
    \/ RelayAnswers \/ RelayUnreachable \/ FetchAborted
    \/ RelayDelayElapsed \/ RelayDelayAborted
    \/ BackoffElapsed \/ ErrorDelayElapsed \/ RetryDelayAborted

(***************************************************************************)
(* SpecApp: refine runs on one project of App.  The model's answer to the  *)
(* one request of updateTestCasesWithQA is the input.                      *)
(***************************************************************************)
NoRefine == [before |-> <<>>, outcome |-> "none", returned |-> <<>>, response |-> "none"]

\* handleSetupComplete (App.tsx, lines 101-117): a new project without
\* records and questions.
AppStart ==
    /\ appPc = "idle"
    /\ storedTestCases = <<>>
    /\ storedQuestions = JArr(<<>>)
    /\ generationState = [isGenerating |-> FALSE, message |-> "none"]
    /\ appNextId = 1
    /\ refineRuns = 0
    /\ lastRefine = NoRefine

\* handleRefineTCs is called (lines 182-192): the generation state of the
\* project is set and updateTestCasesWithQA sends its request.
RefineStart ==
    /\ appPc = "idle"
    /\ refineRuns < MaxRuns
    /\ appPc' = "refining"
    /\ refineRuns' = refineRuns + 1
    /\ generationState' = [isGenerating |-> TRUE, message |-> "refining"]
    /\ UNCHANGED <<storedTestCases, storedQuestions, appNextId, lastRefine,
                   postVars, recVars, genVars, fetchVars, impVars, delayVars, expVars,
                   audVars, projVars, setupVars>>

\* The run ends with the value result of updateTestCasesWithQA, made of the
\* response named r (lines 193-228).
RefineEnds(result, r) ==
    LET h == refineHandled(result, storedTestCases, storedQuestions) IN
    /\ appPc' = "idle"
    /\ storedTestCases' = h.testCases
    /\ storedQuestions' = h.questions
    /\ generationState' = [isGenerating |-> FALSE, message |-> h.message]
    /\ appNextId' = appNextId + result.mapped
    /\ lastRefine' = [before |-> storedTestCases, outcome |-> h.outcome,
                      returned |-> result.testCases, response |-> r]
    /\ UNCHANGED <<refineRuns, postVars, recVars, genVars, fetchVars, impVars, delayVars,
                   expVars, audVars, projVars, setupVars>>

\* The model answers the request of updateTestCasesWithQA with a text.
RefineAnswered ==
    /\ appPc = "refining"
    /\ \E r \in ResponseNames :
          RefineEnds(updateTestCasesWithQA(ResponseText(r), appNextId), r)

\* getClient throws, or callGeminiWithRetry throws after its last attempt:
\* updateTestCasesWithQA rejects (geminiService.ts, lines 482, 539, 571-574).
RefineRejected ==
    /\ appPc = "refining"
    /\ RefineEnds([testCases |-> <<>>, questions |-> JArr(<<>>), threw |-> TRUE,
                   mapped |-> 0], "none")

AppNext == RefineStart \/ RefineAnswered \/ RefineRejected

(***************************************************************************)
(* SpecImport: one call of getFigmaFilePages, getFigmaFrames or            *)
(* processFigmaPage with the signal of an AbortController.  The inputs are *)
(* the URL, the list targetNodeIds, what the relays answer to each call of *)
(* fetchWithRetry and fetchViaProxy, the bodies of the responses and       *)
(* whether the FileReader loads the image.  Reading the body of a response *)
(* belongs to the request that is pending.                                 *)
(***************************************************************************)
\* The URLs of the document: with the key behind file/, design/ or board/,
\* and without a key.
FileUrls ==
    {<<"f", "i", "l", "e", "/", "a", "B", "1", "/", "x">>,
     <<"d", "e", "s", "i", "g", "n", "/", "a", "B", "1", "?", "n">>,
     <<"x", "b", "o", "a", "r", "d", "/", "a", "B", "1">>,
     <<"b", "o", "a", "r", "d", "/">>,
     <<"p", "r", "o", "t", "o", "/", "a", "b">>,
     <<>>}

\* The kind of the k-th child of the page node.
kindOfChild(k) ==
    CASE k % 4 = 1 -> "FRAME"
      [] k % 4 = 2 -> "TEXT"
      [] k % 4 = 3 -> "GROUP"
      [] OTHER -> "VECTOR"

\* The children of the page node.
PageChildren == [k \in 1..MaxChildren |-> [id |-> k, type |-> kindOfChild(k)]]

\* The children of the document: pages and what is no page.
DocumentChildren ==
    {<<>>, <<[id |-> 1, type |-> "CANVAS"]>>,
     <<[id |-> 1, type |-> "DOCUMENT"]>>,
     <<[id |-> 1, type |-> "CANVAS"], [id |-> 2, type |-> "DOCUMENT"],
       [id |-> 3, type |-> "CANVAS"]>>}

\* targetNodeIds: not given, or a list of one or two ids of children; the
\* list is never empty, as handleProcessFigma passes it (ProjectSetup.tsx,
\* lines 188 and 208).
AllowLists ==
    {[given |-> FALSE, ids |-> {}]}
    \cup {[given |-> TRUE, ids |-> {a, b}] : a \in 1..MaxChildren, b \in 1..MaxChildren}

\* The variables of the operation as a record, and back.
ImportState ==
    [pc |-> impPc, op |-> impOp, fileKey |-> fileKey, targetNodeIds |-> targetNodeIds,
     aborted |-> signalAborted, abortedAt |-> abortedAt, targets |-> targets,
     i |-> batchI, t |-> targetI, textMap |-> textMap, imageUrlMap |-> imageUrlMap,
     batchImages |-> batchImages, retriesLeft |-> dlRetries,
     uploadedFiles |-> uploadedFiles, requests |-> requests, delays |-> delays,
     failedSteps |-> failedSteps, blockedSteps |-> blockedSteps, result |-> impResult]

SetImport(p) ==
    /\ impPc' = p.pc
    /\ impOp' = p.op
    /\ fileKey' = p.fileKey
    /\ targetNodeIds' = p.targetNodeIds
    /\ signalAborted' = p.aborted
    /\ abortedAt' = p.abortedAt
    /\ targets' = p.targets
    /\ batchI' = p.i
    /\ targetI' = p.t
    /\ textMap' = p.textMap
    /\ imageUrlMap' = p.imageUrlMap
    /\ batchImages' = p.batchImages
    /\ dlRetries' = p.retriesLeft
    /\ uploadedFiles' = p.uploadedFiles
    /\ requests' = p.requests
    /\ delays' = p.delays
    /\ failedSteps' = p.failedSteps
    /\ blockedSteps' = p.blockedSteps
    /\ impResult' = p.result
    /\ UNCHANGED <<postVars, recVars, genVars, fetchVars, appVars, delayVars, expVars, audVars,
                   projVars, setupVars>>

NoValue == [kind |-> "none", value |-> <<>>, error |-> NoError]

ImportStart ==
    /\ impPc = "idle"
    /\ impOp = "none"
    /\ fileKey = <<>>
    /\ targetNodeIds = [given |-> FALSE, ids |-> {}]
    /\ signalAborted = FALSE
    /\ abortedAt = "none"
    /\ targets = <<>>
    /\ batchI = 0
    /\ targetI = 1
    /\ textMap = <<>>
    /\ imageUrlMap = {}
    /\ batchImages = {}
    /\ dlRetries = IMAGE_RETRIES
    /\ uploadedFiles = <<>>
    /\ requests = <<>>
    /\ delays = 0
    /\ failedSteps = {}
    /\ blockedSteps = {}
    /\ impResult = NoValue

\* getFigmaFilePages(fileUrl, accessToken, signal) is called.
CallGetFigmaFilePages ==
    /\ impPc = "idle"
    /\ \E fileUrl \in FileUrls :
          SetImport(callOperation(ImportState, "getFigmaFilePages", fileUrl,
                                  [given |-> FALSE, ids |-> {}]))

\* getFigmaFrames(fileUrl, accessToken, pageId, signal) is called.
CallGetFigmaFrames ==
    /\ impPc = "idle"
    /\ \E fileUrl \in FileUrls :
          SetImport(callOperation(ImportState, "getFigmaFrames", fileUrl,
                                  [given |-> FALSE, ids |-> {}]))

\* processFigmaPage(fileUrl, accessToken, pageId, onProgress, signal,
\* targetNodeIds) is called.
CallProcessFigmaPage ==
    /\ impPc = "idle"
    /\ \E fileUrl \in FileUrls : \E allowList \in AllowLists :
          SetImport(callOperation(ImportState, "processFigmaPage", fileUrl, allowList))

\* The positions where the operation waits for a request and for a delay.
RequestPcs == {"list", "textFetch", "imageFetch", "imageRetry", "download"}

DelayPcs == {"textDelay", "imageDelay", "downloadDelay"}

\* controller.abort(): the signal fires while the operation waits.
AbortImport ==
    /\ impPc \in RequestPcs \cup DelayPcs \cup {"reading"}
    /\ ~signalAborted
    /\ SetImport([ImportState EXCEPT !.aborted = TRUE, !.abortedAt = impPc])

\* What the step at the position pc makes of the result of its request, with
\* the bodies that the step reads.
requestSettled(p, result, found, children, texts, urls) ==
    CASE p.pc = "list" /\ p.op = "getFigmaFilePages" -> pagesAnswered(p, result, children)
      [] p.pc = "list" /\ p.op = "getFigmaFrames" ->
             framesAnswered(p, result, found, children)
      [] p.pc = "list" /\ p.op = "processFigmaPage" ->
             pageAnswered(p, result, found, children)
      [] p.pc = "textFetch" -> textAnswered(p, result, texts)
      [] p.pc = "imageFetch" -> imageAnswered(p, result, urls)
      [] p.pc = "imageRetry" -> retryAnswered(p, result, urls)
      [] OTHER -> downloadAnswered(p, result)

\* The signal has fired: the pending request rejects with the AbortError.
RequestCancelled ==
    /\ impPc \in RequestPcs
    /\ signalAborted
    /\ SetImport(requestSettled(ImportState, fetchCancelled(impPc # "download",
                                                            impPc = "download"),
                                FALSE, <<>>, <<>>, {}))

\* The signal has fired: the pending delay rejects with the AbortError
\* (lines 49-52), which no catch block is around.
DelayCancelled ==
    /\ impPc \in DelayPcs
    /\ signalAborted
    /\ SetImport(rejectedWith(ImportState, AbortError))

\* getFigmaFilePages: fetchWithRetry settles (lines 261-270).
PagesAnswered ==
    /\ impPc = "list" /\ impOp = "getFigmaFilePages"
    /\ ~signalAborted
    /\ \E b \in RelayBehaviours : \E children \in DocumentChildren :
          SetImport(pagesAnswered(ImportState, fetchWithRetry(b), children))

\* getFigmaFrames: fetchWithRetry settles (lines 285-301).
FramesAnswered ==
    /\ impPc = "list" /\ impOp = "getFigmaFrames"
    /\ ~signalAborted
    /\ \E b \in RelayBehaviours : \E found \in BOOLEAN :
          SetImport(framesAnswered(ImportState, fetchWithRetry(b), found, PageChildren))

\* processFigmaPage: fetchWithRetry settles for the page (lines 319-352).
PageAnswered ==
    /\ impPc = "list" /\ impOp = "processFigmaPage"
    /\ ~signalAborted
    /\ \E b \in RelayBehaviours : \E found \in BOOLEAN :
          SetImport(pageAnswered(ImportState, fetchWithRetry(b), found, PageChildren))

\* fetchWithRetry settles for the text of a batch (lines 352-366).  The body
\* has every node of the batch, some with text.
TextAnswered ==
    /\ impPc = "textFetch"
    /\ ~signalAborted
    /\ \E b \in RelayBehaviours :
       \E withText \in SUBSET idsOfNodes(chunkAt(targets, TEXT_BATCH_SIZE, batchI)) :
          SetImport(textAnswered(
              ImportState, fetchWithRetry(b),
              [id \in idsOfNodes(chunkAt(targets, TEXT_BATCH_SIZE, batchI)) |->
                  IF id \in withText THEN "text" ELSE ""]))

\* delay(2000 + Math.random() * 2000, signal) is over (lines 366, 345).
TextDelayElapsed ==
    /\ impPc = "textDelay"
    /\ ~signalAborted
    /\ SetImport(textLoop([ImportState EXCEPT !.i = @ + 1]))

\* fetchWithRetry settles for the image URLs of a batch (lines 386-398).
ImageAnswered ==
    /\ impPc = "imageFetch"
    /\ ~signalAborted
    /\ \E b \in RelayBehaviours :
       \E urls \in SUBSET renderableIds(chunkAt(targets, IMAGE_BATCH_SIZE, batchI)) :
          SetImport(imageAnswered(ImportState, fetchWithRetry(b), urls))

\* fetchWithRetry settles for the request at scale 0.1 (lines 402-415).
RetryAnswered ==
    /\ impPc = "imageRetry"
    /\ ~signalAborted
    /\ \E b \in RelayBehaviours :
       \E urls \in SUBSET (renderableIds(chunkAt(targets, IMAGE_BATCH_SIZE, batchI))
                           \ batchImages) :
          SetImport(retryAnswered(ImportState, fetchWithRetry(b), urls))

\* delay(4000 + Math.random() * 2000, signal) is over (lines 415, 371).
ImageDelayElapsed ==
    /\ impPc = "imageDelay"
    /\ ~signalAborted
    /\ SetImport(imageLoop([ImportState EXCEPT !.i = @ + 1]))

\* urlToBase64: fetchViaProxy settles (lines 228-232).
DownloadAnswered ==
    /\ impPc = "download"
    /\ ~signalAborted
    /\ \E b \in RelayBehaviours : SetImport(downloadAnswered(ImportState, fetchImage(b)))

\* urlToBase64: the FileReader ends (lines 233-238), with the image or with
\* an error.  The reader has no signal.
ReadEnds ==
    /\ impPc = "reading"
    /\ \E loaded \in BOOLEAN : SetImport(readEnds(ImportState, loaded))

\* urlToBase64: delay(1000, signal) is over (lines 243-244).
DownloadDelayElapsed ==
    /\ impPc = "downloadDelay"
    /\ ~signalAborted
    /\ SetImport(downloadAgain(ImportState))

ImportNext ==
    \/ CallGetFigmaFilePages \/ CallGetFigmaFrames \/ CallProcessFigmaPage
    \/ AbortImport \/ RequestCancelled \/ DelayCancelled
    \/ PagesAnswered \/ FramesAnswered \/ PageAnswered
    \/ TextAnswered \/ TextDelayElapsed
    \/ ImageAnswered \/ RetryAnswered \/ ImageDelayElapsed
    \/ DownloadAnswered \/ ReadEnds \/ DownloadDelayElapsed

(***************************************************************************)
(* SpecDelay: calls of delay with and without the signal of one            *)
(* AbortController, their timers, and the abort of the controller.         *)
(***************************************************************************)
\* The times of the calls of lines 124, 203 and 243.
DelayTimes == {500, 1000, 2000}

DelayStart ==
    /\ delayCalls = <<>>
    /\ delaySignal = FALSE

\* delay(ms, signal) or delay(ms) is called.
CallDelay ==
    /\ Len(delayCalls) < MaxDelays
    /\ \E ms \in DelayTimes, signalled \in BOOLEAN :
          delayCalls' = Append(delayCalls, delay(ms, signalled, delaySignal))
    /\ UNCHANGED <<delaySignal, postVars, recVars, genVars, fetchVars, appVars, impVars,
                   expVars, audVars, projVars, setupVars>>

\* The timer of a call fires.
TimerFires ==
    /\ \E k \in 1..Len(delayCalls) :
          /\ delayCalls[k].timer = "pending"
          /\ delayCalls' = [delayCalls EXCEPT ![k] = timerFires(@)]
    /\ UNCHANGED <<delaySignal, postVars, recVars, genVars, fetchVars, appVars, impVars,
                   expVars, audVars, projVars, setupVars>>

\* controller.abort(): the signal fires once and runs the listeners that
\* are registered on it.
AbortDelays ==
    /\ ~delaySignal
    /\ delaySignal' = TRUE
    /\ delayCalls' = [k \in 1..Len(delayCalls) |->
                         IF delayCalls[k].listener THEN abortListener(delayCalls[k])
                         ELSE delayCalls[k]]
    /\ UNCHANGED <<postVars, recVars, genVars, fetchVars, appVars, impVars, expVars, audVars,
                   projVars, setupVars>>

DelayNext == CallDelay \/ TimerFires \/ AbortDelays


(***************************************************************************)
(* SpecExpand: one run of generateTestCases of src/unnamed/part_001.       *)
(***************************************************************************)
PageSizes == {0, 1, 2}

ExpandStart ==
    /\ expPc = "start"
    /\ expPhaseI = 0
    /\ hasMore = TRUE
    /\ pageCount = 0
    /\ phaseDraftTCs = <<>>
    /\ expAccumulated = <<>>
    /\ expStartNo = 1
    /\ expNextId = 1
    /\ pageLog = <<>>

expandNow ==
    [pc |-> expPc, i |-> expPhaseI, hasMore |-> hasMore, pageCount |-> pageCount,
     phaseDraftTCs |-> phaseDraftTCs, accumulatedTestCases |-> expAccumulated,
     currentStartNo |-> expStartNo, nextId |-> expNextId, pageLog |-> pageLog]

expandBecomes(e) ==
    /\ expPc' = e.pc
    /\ expPhaseI' = e.i
    /\ hasMore' = e.hasMore
    /\ pageCount' = e.pageCount
    /\ phaseDraftTCs' = e.phaseDraftTCs
    /\ expAccumulated' = e.accumulatedTestCases
    /\ expStartNo' = e.currentStartNo
    /\ expNextId' = e.nextId
    /\ pageLog' = e.pageLog
    /\ UNCHANGED <<postVars, recVars, genVars, fetchVars, appVars, impVars, delayVars, audVars,
                   projVars, setupVars>>

ExpandCall ==
    /\ expPc = "start"
    /\ expandBecomes(expandStart)

ExpansionAnswered ==
    /\ expPc = "page"
    /\ \E n \in PageSizes, more \in BOOLEAN : expandBecomes(pageParsed(expandNow, n, more))

ExpansionFails ==
    /\ expPc = "page"
    /\ expandBecomes(pageFailed(expandNow))

VerificationAnswered ==
    /\ expPc = "verify"
    /\ \E n \in PageSizes : expandBecomes(verified(expandNow, n))

VerificationFails ==
    /\ expPc = "verify"
    /\ expandBecomes(verifyFailed(expandNow))

ExpandNext ==
    \/ ExpandCall
    \/ ExpansionAnswered
    \/ ExpansionFails
    \/ VerificationAnswered
    \/ VerificationFails

(***************************************************************************)
(* SpecAudit: one run of generateTestCases of src/unnamed/part_000.        *)
(***************************************************************************)
AuditStart ==
    /\ audPc = "start"
    /\ audPhaseI = 0
    /\ phaseTCs = <<>>
    /\ audAccumulated = <<>>
    /\ audNextId = 1
    /\ audLog = <<>>

auditNow ==
    [pc |-> audPc, i |-> audPhaseI, phaseTCs |-> phaseTCs,
     accumulatedTestCases |-> audAccumulated, nextId |-> audNextId, log |-> audLog]

auditBecomes(a) ==
    /\ audPc' = a.pc
    /\ audPhaseI' = a.i
    /\ phaseTCs' = a.phaseTCs
    /\ audAccumulated' = a.accumulatedTestCases
    /\ audNextId' = a.nextId
    /\ audLog' = a.log
    /\ UNCHANGED <<postVars, recVars, genVars, fetchVars, appVars, impVars, delayVars,
                   expVars, projVars, setupVars>>

AuditCall ==
    /\ audPc = "start"
    /\ auditBecomes(auditStart)

DraftAnswered ==
    /\ audPc = "draft"
    /\ \E n \in PageSizes : auditBecomes(draftParsed(auditNow, n))

DraftFails ==
    /\ audPc = "draft"
    /\ auditBecomes(draftFailed(auditNow))

AuditAnswered ==
    /\ audPc = "audit"
    /\ \E n \in PageSizes : auditBecomes(auditParsed(auditNow, n))

AuditFails ==
    /\ audPc = "audit"
    /\ auditBecomes(auditFailed(auditNow))

AuditNext ==
    \/ AuditCall
    \/ DraftAnswered
    \/ DraftFails
    \/ AuditAnswered
    \/ AuditFails

(***************************************************************************)
(* SpecProjects: the user sets up projects, opens them, saves, and starts  *)
(* generate and refine runs that end while any project is shown.           *)
(***************************************************************************)
ResultSizes == {0, 1, 2}

ProjectsStart ==
    /\ viewState = "DASHBOARD"
    /\ projects = <<>>
    /\ currentProject = NoProject
    /\ generationStates = [id \in ProjectIds |-> [isGenerating |-> FALSE, message |-> "none"]]
    /\ runsInFlight = [id \in ProjectIds |-> NoRun]
    /\ runsStarted = 0

appNow ==
    [projects |-> projects, currentProject |-> currentProject,
     generationStates |-> generationStates]

appBecomes(app) ==
    /\ projects' = app.projects
    /\ currentProject' = app.currentProject
    /\ generationStates' = app.generationStates
    /\ UNCHANGED <<postVars, recVars, genVars, fetchVars, appVars, impVars, delayVars,
                   expVars, audVars, setupVars>>

\* handleCreateNew (lines 97-99).
CreateNew ==
    /\ viewState = "DASHBOARD"
    /\ Len(projects) < MaxProjects
    /\ viewState' = "SETUP"
    /\ appBecomes(appNow)
    /\ UNCHANGED <<runsInFlight, runsStarted>>

\* onCancel of ProjectSetup and onBack of Workspace (lines 246, 255).
BackToDashboard ==
    /\ viewState \in {"SETUP", "WORKSPACE"}
    /\ viewState' = "DASHBOARD"
    /\ appBecomes(appNow)
    /\ UNCHANGED <<runsInFlight, runsStarted>>

SetupComplete ==
    /\ viewState = "SETUP"
    /\ viewState' = "WORKSPACE"
    /\ appBecomes(handleSetupComplete(appNow, Len(projects) + 1))
    /\ UNCHANGED <<runsInFlight, runsStarted>>

\* A project of the dashboard is opened.
ProjectSelect ==
    /\ viewState = "DASHBOARD"
    /\ \E k \in 1..Len(projects) :
          appBecomes(handleProjectSelect(appNow, projects[k]))
    /\ viewState' = "WORKSPACE"
    /\ UNCHANGED <<runsInFlight, runsStarted>>

\* handleSave of Workspace (Workspace.tsx, lines 44-52, 120-122): the button
\* is disabled while the shown project generates.
Save ==
    /\ viewState = "WORKSPACE"
    /\ currentProject # NoProject
    /\ ~generationStates[currentProject.id].isGenerating
    /\ appBecomes(handleUpdateProject(appNow, currentProject))
    /\ UNCHANGED <<viewState, runsInFlight, runsStarted>>

\* onGenerate or onRefine of the shown project (App.tsx, lines 261-262;
\* the buttons are disabled while it generates: Workspace.tsx, lines 302,
\* 340): the handler sets the generation state and awaits the service.
RunStart ==
    /\ viewState = "WORKSPACE"
    /\ currentProject # NoProject
    /\ ~generationStates[currentProject.id].isGenerating
    /\ runsStarted < MaxRuns
    /\ \E kind \in {"generate", "refine"} :
          /\ runsInFlight' = [runsInFlight EXCEPT ![currentProject.id] =
                                 [kind |-> kind, projectId |-> currentProject.id,
                                  seen |-> currentProject.id, run |-> runsStarted + 1]]
          /\ appBecomes(setProjectGenState(appNow, currentProject.id, TRUE, kind))
    /\ runsStarted' = runsStarted + 1
    /\ UNCHANGED viewState

\* The service call of a pending run resolves with n records.
RunResolves ==
    \E id \in ProjectIds, n \in ResultSizes :
        /\ runsInFlight[id] # NoRun
        /\ appBecomes(runResolved(appNow, runsInFlight[id], resultOf(runsInFlight[id], n)))
        /\ runsInFlight' = [runsInFlight EXCEPT ![id] = NoRun]
        /\ UNCHANGED <<viewState, runsStarted>>

\* The service call of a pending run rejects.
RunRejects ==
    \E id \in ProjectIds :
        /\ runsInFlight[id] # NoRun
        /\ appBecomes(runRejected(appNow, runsInFlight[id]))
        /\ runsInFlight' = [runsInFlight EXCEPT ![id] = NoRun]
        /\ UNCHANGED <<viewState, runsStarted>>

ProjectsNext ==
    \/ CreateNew
    \/ BackToDashboard
    \/ SetupComplete
    \/ ProjectSelect
    \/ Save
    \/ RunStart
    \/ RunResolves
    \/ RunRejects

(***************************************************************************)
(* SpecSetup: the user drives the design import; the services settle.      *)
(***************************************************************************)
LayerCounts == {0, 2}

SetupStart ==
    /\ figmaStep = "INPUT"
    /\ isLoading = FALSE
    /\ errorMsg = "none"
    /\ selectedLayers = 0
    /\ abortControllerRef = 0
    /\ abortedControllers = {}
    /\ pendingOps = {}
    /\ handlerCalls = 0
    /\ mounted = TRUE
    /\ overlapped = FALSE

setupNow ==
    [figmaStep |-> figmaStep, isLoading |-> isLoading, errorMsg |-> errorMsg,
     selectedLayers |-> selectedLayers, abortControllerRef |-> abortControllerRef,
     abortedControllers |-> abortedControllers, pendingOps |-> pendingOps,
     handlerCalls |-> handlerCalls, mounted |-> mounted, overlapped |-> overlapped]

setupBecomes(s) ==
    /\ figmaStep' = s.figmaStep
    /\ isLoading' = s.isLoading
    /\ errorMsg' = s.errorMsg
    /\ selectedLayers' = s.selectedLayers
    /\ abortControllerRef' = s.abortControllerRef
    /\ abortedControllers' = s.abortedControllers
    /\ pendingOps' = s.pendingOps
    /\ handlerCalls' = s.handlerCalls
    /\ mounted' = s.mounted
    /\ overlapped' = s.overlapped
    /\ UNCHANGED <<postVars, recVars, genVars, fetchVars, appVars, impVars, delayVars,
                   expVars, audVars, projVars>>

\* The button of the INPUT step (lines 345-346): disabled while loading.
FetchPagesClicked ==
    /\ mounted /\ figmaStep = "INPUT" /\ ~isLoading
    /\ handlerCalls < MaxCalls
    /\ \E filled \in BOOLEAN : setupBecomes(handleFetchPages(setupNow, filled))

\* A page button of the SELECT_PAGE step (lines 371-374): never disabled.
PageClicked ==
    /\ mounted /\ figmaStep = "SELECT_PAGE"
    /\ handlerCalls < MaxCalls
    /\ setupBecomes(handlePageSelect(setupNow))

\* The button of the SELECT_LAYER step (lines 441-442): disabled while
\* loading and without a selected frame.
ProcessLayersClicked ==
    /\ mounted /\ figmaStep = "SELECT_LAYER" /\ ~isLoading /\ selectedLayers > 0
    /\ handlerCalls < MaxCalls
    /\ setupBecomes(handleProcessLayers(setupNow))

\* "Enter the information again" of the SELECT_PAGE step (line 363).
BackToInput ==
    /\ mounted /\ figmaStep = "SELECT_PAGE"
    /\ setupBecomes([setupNow EXCEPT !.figmaStep = "INPUT"])

\* The cancel button of the PROCESSING step (line 457).
CancelClicked ==
    /\ mounted /\ figmaStep = "PROCESSING"
    /\ setupBecomes(handleCancelFigma(setupNow))

\* onCancel or onComplete of the setup: the component unmounts.
Unmount ==
    /\ mounted
    /\ setupBecomes(unmountCleanup(setupNow))

\* The service of a pending call whose signal is not aborted resolves.
ServiceResolves ==
    \E op \in pendingOps, layers \in LayerCounts :
        /\ op.id \notin abortedControllers
        /\ setupBecomes(operationResolved(setupNow, op, layers))

\* The service of a pending call whose signal is not aborted fails.
ServiceFails ==
    \E op \in pendingOps :
        /\ op.id \notin abortedControllers
        /\ setupBecomes(operationFailed(setupNow, op))

\* The service of a pending call whose signal is aborted rejects with the
\* AbortError.
ServiceAborted ==
    \E op \in pendingOps :
        /\ op.id \in abortedControllers
        /\ setupBecomes(operationAborted(setupNow, op))

SetupNext ==
    \/ FetchPagesClicked
    \/ PageClicked
    \/ ProcessLayersClicked
    \/ BackToInput
    \/ CancelClicked
    \/ Unmount
    \/ ServiceResolves
    \/ ServiceFails
    \/ ServiceAborted
(***************************************************************************)
(* The specifications.                                                     *)
(***************************************************************************)
Init == PostStart /\ RecStart /\ GenStart /\ FetchStart /\ AppStart /\ ImportStart
        /\ DelayStart /\ ExpandStart /\ AuditStart /\ ProjectsStart /\ SetupStart

SpecPost    == Init /\ [][PostNext]_vars
SpecRecover == Init /\ [][RecNext]_vars
Spec        == Init /\ [][Next]_vars
SpecFetch   == Init /\ [][FetchNext]_vars
SpecApp     == Init /\ [][AppNext]_vars
SpecImport  == Init /\ [][ImportNext]_vars
SpecDelay   == Init /\ [][DelayNext]_vars
SpecExpand  == Init /\ [][ExpandNext]_vars
SpecAudit   == Init /\ [][AuditNext]_vars
SpecProjects == Init /\ [][ProjectsNext]_vars
SpecSetup   == Init /\ [][SetupNext]_vars


(***************************************************************************)
(* Properties of postProcessTestCases (checked under SpecPost).            *)
(***************************************************************************)
SameKey(a, b) ==
    /\ trim(orEmpty(a.depth1)) = trim(orEmpty(b.depth1))
    /\ trim(orEmpty(a.depth2)) = trim(orEmpty(b.depth2))
    /\ trim(orEmpty(a.depth3)) = trim(orEmpty(b.depth3))

PosOfId(tcs, id) == CHOOSE k \in 1..Len(tcs) : tcs[k].id = id

\* (x1, x2, x3) <= (y1, y2, y3) lexicographically under the collation.
TupleLeq(x1, x2, x3, y1, y2, y3) ==
    \/ localeCompare(x1, y1) < 0
    \/ /\ localeCompare(x1, y1) = 0
       /\ \/ localeCompare(x2, y2) < 0
          \/ /\ localeCompare(x2, y2) = 0
             /\ localeCompare(x3, y3) <= 0

\* C1: postProcessTestCases returns as many records as it was given, and the
\* record at output position i (0-based) carries no = i + 1, so the 'no'
\* values are exactly 1..N, each once, whatever the incoming 'no' values were.
C1_DenseRenumbering ==
    postPc \in {"once", "twice"} =>
        /\ Len(tcOnce) = Len(tcInput)
        /\ \A k \in 1..Len(tcOnce) : tcOnce[k].no = k
        /\ {tcOnce[k].no : k \in 1..Len(tcOnce)} = 1..Len(tcInput)

\* C1 witness: a processed list of three records whose incoming 'no' values
\* hold a duplicate and a 0, and whose order was changed by the sort.
C1_Witness ==
    /\ postPc = "once"
    /\ Len(tcInput) = 3
    /\ tcInput[1].no = 2 /\ tcInput[2].no = 2 /\ tcInput[3].no = 0
    /\ tcOnce[1].id # 1

\* C2: postProcessTestCases is idempotent: applied to its own output it
\* returns the same records in the same order with the same 'no' values.
C2_Idempotent ==
    postPc = "twice" => tcTwice = tcOnce

\* C2 witness: the second application has run on a list that the first one
\* reordered and that holds two records with the same key.
C2_Witness ==
    /\ postPc = "twice"
    /\ Len(tcInput) = 3
    /\ tcOnce[1].id # 1
    /\ \E i, j \in 1..3 : i < j /\ SameKey(tcInput[i], tcInput[j])

\* C3 (as stated): every adjacent pair of the output is ordered
\* lexicographically under the collation by its depth fields as stored
\* (a missing field counts as empty).
C3_SortedByStoredDepths ==
    postPc \in {"once", "twice"} =>
        \A k \in 1..(Len(tcOnce) - 1) :
            TupleLeq(orEmpty(tcOnce[k].depth1), orEmpty(tcOnce[k].depth2),
                     orEmpty(tcOnce[k].depth3), orEmpty(tcOnce[k+1].depth1),
                     orEmpty(tcOnce[k+1].depth2), orEmpty(tcOnce[k+1].depth3))

HasRecordNo(testCases, no) ==
    \E k \in 1..Len(testCases) : getProp(testCases[k], K_no) = JNum(no)

\* C6 (as stated): whenever the text holds a complete object with a number
\* under "no" and a title ({"no":1,"title":"A"} or {"no":3,"title":"C}"}),
\* whatever fragments precede or follow it, Strategy A returns a record for
\* that object with its fields unchanged.
C6_BracketsRecoverValidObject ==
    recPc # "build" =>
        \A k \in 1..Len(frags) :
            frags[k] \in {"V1", "VB"} =>
                \E m \in 1..Len(bracketsOut.result.testCases) :
                    bracketsOut.result.testCases[m] = JSONparse(FragText(frags[k])).val

\* C8 (as stated): whenever Strategy A yields no record and the text holds the
\* flat chunk "no":4 ... "title":"D" ... "steps":"s", closed by a brace or
\* not, Strategy B returns a record with no = 4.
C8_RegexRecoversFlatChunk ==
    (/\ recPc \in {"regex", "recovered"}
     /\ bracketsOut.result.testCases = <<>>
     /\ \E k \in 1..Len(frags) : frags[k] = "F4") =>
        HasRecordNo(regexOut.testCases, 4)

\* An opening brace at index k was examined as a candidate, or lies inside a
\* candidate that was closed before the scan reached it.
Examined(k) ==
    \E m \in 1..Len(bracketsOut.opened) :
        LET c == bracketsOut.opened[m] IN
        \/ c.open = k
        \/ c.open < k /\ k <= c.end

\* C9: recoverTruncatedJson never raises; when neither strategy finds a record
\* it returns the empty record list; and a candidate that fails to parse or
\* holds a malformed element never keeps the scan from examining the later
\* candidates: every opening brace of the text is examined or lies inside a
\* closed candidate.
C9_RecoveryNeverRaises ==
    recPc = "recovered" =>
        /\ ~recovered.threw
        /\ ~bracketsOut.threw
        /\ bracketsOut.iterations < MAX_ITERATIONS
        /\ (bracketsOut.result.testCases = <<>> /\ regexOut.testCases = <<>>)
              => recovered.result.testCases = <<>>
        /\ LET cleanText == stripFences(respText) IN
           \A k \in 1..Len(cleanText) : cleanText[k] = "{" => Examined(k)

\* C9 witness: a wrapper whose element is null (reading its no raises inside
\* the candidate), then an unclosed brace, then a complete object that
\* recovery returns.
C9_Witness ==
    /\ recPc = "recovered"
    /\ frags = <<"WN", "OB", "V1">>
    /\ recovered.result.testCases = <<JSONparse(FragV1).val>>


\* The text that parseViaBrackets is applied to.
CleanText == stripFences(respText)

\* Where the scan goes on behind the candidate c.
ResumesAt(c) == IF c.end # 0 THEN c.end + 1 ELSE c.open + 1

\* The scan position at the start of the k-th iteration (1-based as the
\* indices of the model).
StartOf(k) == IF k = 1 THEN 1 ELSE ResumesAt(bracketsOut.opened[k - 1])

\* C33: parseViaBrackets terminates on every input.  Every iteration of the
\* outer loop takes the first opening brace from the scan position as its
\* candidate and moves the scan position forward: to just past the closing
\* brace of the candidate, or to one character past its opening brace when
\* no brace closes it.  The loop runs at most 10000 times, and at most once
\* for every opening brace of the text.
C33_ScanAdvances ==
    recPc # "build" =>
        LET o == bracketsOut.opened IN
        /\ ~bracketsOut.threw
        /\ bracketsOut.iterations = Len(o)
        /\ Len(o) <= MAX_ITERATIONS
        /\ Len(o) <= Cardinality({i \in 1..Len(CleanText) : CleanText[i] = "{"})
        /\ bracketsOut.startIndex = StartOf(Len(o) + 1)
        /\ \A k \in 1..Len(o) :
              /\ StartOf(k + 1) > StartOf(k)
              /\ o[k].open >= StartOf(k)
              /\ CleanText[o[k].open] = "{"
              /\ \A i \in StartOf(k)..(o[k].open - 1) : CleanText[i] # "{"
              /\ o[k].end # 0 => o[k].end > o[k].open /\ CleanText[o[k].end] = "}"
        /\ \A i \in bracketsOut.startIndex..Len(CleanText) : CleanText[i] # "{"

\* C33 witness: the scan closed the first candidate, found no closing brace
\* for the second one and went on one character behind its opening brace,
\* where it closed the third one.
C33_Witness ==
    /\ recPc = "brackets"
    /\ frags = <<"V1", "OB", "VB">>
    /\ Len(bracketsOut.opened) = 3
    /\ bracketsOut.opened[1].end # 0
    /\ bracketsOut.opened[2].end = 0
    /\ bracketsOut.opened[3].open = bracketsOut.opened[2].open + 1
    /\ bracketsOut.opened[3].end = Len(CleanText)

\* The fragments that are a valid JSON object.
ValidObjects == {"V1", "VB", "VE", "WN"}

\* The length of the first n fragments in the text that parseViaBrackets is
\* applied to, in which the fences are taken out.
RECURSIVE LengthBefore(_)
LengthBefore(n) ==
    IF n = 0 THEN 0
    ELSE LengthBefore(n - 1) + (IF frags[n] = "FN" THEN 0 ELSE Len(FragText(frags[n])))

\* C34: braces inside a quoted string, also of a string that holds escaped
\* quotes and escaped backslashes, do not change the brace balance.  A
\* candidate that starts at the opening brace of a valid JSON object ends
\* exactly at the closing brace of that object, and the object is what
\* JSON.parse makes of the candidate.
C34_CandidateEndsAtMatchingBrace ==
    recPc # "build" =>
        \A k \in 1..Len(frags) : \A m \in 1..Len(bracketsOut.opened) :
            (frags[k] \in ValidObjects
                /\ bracketsOut.opened[m].open = LengthBefore(k - 1) + 1) =>
               /\ bracketsOut.opened[m].end = LengthBefore(k)
               /\ JSONparse(SubSeq(CleanText, bracketsOut.opened[m].open,
                                   bracketsOut.opened[m].end)).ok

\* C34 witness: the candidate whose title holds a closing brace, an escaped
\* quote, an opening brace and an escaped backslash starts behind an unclosed
\* brace and ends at its own closing brace; Strategy A returns its record and
\* the record behind it.
C34_Witness ==
    /\ recPc = "brackets"
    /\ frags = <<"OB", "VE", "V1">>
    /\ bracketsOut.opened[2] = [open |-> 2, end |-> 1 + Len(FragVE)]
    /\ bracketsOut.result.testCases = <<JSONparse(FragVE).val, JSONparse(FragV1).val>>
(***************************************************************************)
(* Properties of generateTestCases (checked under Spec).                   *)
(***************************************************************************)
RECURSIVE SumSeq(_)
SumSeq(ns) == IF ns = <<>> THEN 0 ELSE Head(ns) + SumSeq(Tail(ns))

IdsOf(tcs) == {tcs[k].id : k \in 1..Len(tcs)}

IsRecordA(tc) ==
    /\ tc.no = 1
    /\ tc.title = JStr(<<"A">>)
    /\ tc.depth1 = JStr(<<>>) /\ tc.depth2 = JStr(<<>>) /\ tc.depth3 = JStr(<<>>)
    /\ tc.precondition = JStr(<<>>) /\ tc.steps = JStr(<<>>)
    /\ tc.expectedResult = JStr(<<>>)

\* C7: for the response {"testCases":[{"no":1,"title":"A"},{"no":2,"title":"B"
\* (cut off inside the second element) direct JSON parsing fails, recovery
\* answers exactly the complete first object as a record, and the unclosed
\* fragment contributes no record.
C7_TruncatedResponseRecovered ==
    lastPhase.response = "Truncated" =>
        /\ ~JSONparse(trim(stripFences(RespTruncated))).ok
        /\ ~lastPhase.direct
        /\ lastPhase.outcome = "ok"
        /\ Len(lastPhase.batch) = 1
        /\ IsRecordA(lastPhase.batch[1])
        /\ accumulatedTestCases # <<>>
        /\ accumulatedTestCases[Len(accumulatedTestCases)] = lastPhase.batch[1]

\* C7 witness: a phase behind the first one was answered with the truncated
\* response and appended its one record to records of earlier phases.
C7_Witness ==
    /\ genPc = "loop"
    /\ lastPhase.response = "Truncated"
    /\ lastPhase.phase >= 1
    /\ Len(accumulatedTestCases) >= 2
    /\ IsRecordA(accumulatedTestCases[Len(accumulatedTestCases)])

IsPrefix(xs, ys) == Len(xs) <= Len(ys) /\ SubSeq(ys, 1, Len(xs)) = xs

\* The phases started and ended so far are 0, 1, 2, ... in this order, each
\* started once and ended before the next one starts; a phase is in flight
\* exactly while a request or a delay is pending; and when the run is over
\* every phase of the list has been started and ended.
C10_PhasesInOrder ==
    /\ \A k \in 1..Len(phaseLog) :
          phaseLog[k] = [ev |-> IF k % 2 = 1 THEN "start" ELSE "end",
                         phase |-> (k - 1) \div 2]
    /\ genPc \in {"request", "delay"} =>
          Len(phaseLog) = 2 * phaseI + 1
    /\ genPc \in {"loop", "done", "rejected"} =>
          Len(phaseLog) = 2 * phaseI
    /\ genPc \in {"done", "rejected"} =>
          Len(phaseLog) = 2 * Len(PHASES)

\* C10: every phase of the list is attempted exactly once, in list order, one
\* after the other; a phase whose model call fails after all retries or whose
\* processing raises keeps no later phase from running, and no step removes
\* a record that was accumulated.
C10_EveryPhaseOnceInOrder ==
    /\ []C10_PhasesInOrder
    /\ [][IsPrefix(accumulatedTestCases, accumulatedTestCases')]_vars

\* C10 witness: after a phase that appended two records, a phase that
\* appended none and a phase whose call failed after all retries, the fourth
\* phase has sent its request and the two records are still accumulated.
C10_Witness ==
    /\ genPc = "request"
    /\ phaseI = 3
    /\ batchCounts = <<2, 0, 0>>
    /\ lastPhase.outcome = "callFailed"
    /\ finalSummary = <<>>
    /\ Len(accumulatedTestCases) = 2


\* The step that ends a phase whose response yielded zero records (the
\* continue of line 442).
EmptyPhaseEnds ==
    /\ genPc = "request"
    /\ genPc' = "loop"
    /\ lastPhase'.outcome = "empty"

\* C11: a phase whose response yields zero records contributes nothing to
\* the run: the step that ends it leaves the accumulated records, the
\* accumulated questions and the accumulated summary as they were, and the
\* loop goes on with the next phase.
C11_EmptyPhaseContributesNothing ==
    [][EmptyPhaseEnds =>
          /\ accumulatedTestCases' = accumulatedTestCases
          /\ accumulatedQuestions' = accumulatedQuestions
          /\ finalSummary' = finalSummary
          /\ phaseI' = phaseI + 1]_vars

\* The number of requests sent by the call of callGeminiWithRetry in flight.
RequestsSent == Len(SelectSeq(callTrace, LAMBDA e : e = "request"))

\* The number of its attempts that failed.
AttemptsFailed == Len(SelectSeq(callTrace, LAMBDA e : e = "failed"))

\* The number of its delays.
DelaysDone == Len(SelectSeq(callTrace, LAMBDA e : e = "delay"))

\* While a call of callGeminiWithRetry is in flight: at most 3 requests were
\* sent, every request but the pending one failed, and a delay followed every
\* failure.
C12_CallShape ==
    /\ genPc \in {"request", "delay"} =>
          /\ RequestsSent <= 3
          /\ AttemptsFailed = apiAttempts
          /\ DelaysDone = AttemptsFailed
          /\ RequestsSent = AttemptsFailed + (IF genPc = "request" THEN 1 ELSE 0)
    /\ genPc \notin {"request", "delay"} => callTrace = <<>>

\* The step that ends a call of callGeminiWithRetry: with the text of the
\* pending request, which every earlier request of the call failed to give,
\* or with the terminal error, and then the pending request was the third
\* one, it failed like the two before it, and no delay followed it.  A failed
\* request that is the first or the second one is followed by a delay and does
\* not end the call.
C12_CallEnds ==
    /\ (genPc = "request" /\ genPc' = "loop") =>
          IF lastPhase'.outcome = "callFailed"
          THEN RequestsSent = 3 /\ AttemptsFailed = 2 /\ DelaysDone = 2
          ELSE /\ lastPhase'.response \in ResponseNames
               /\ AttemptsFailed = RequestsSent - 1
    /\ (genPc = "request" /\ genPc' = "delay") =>
          /\ RequestsSent < 3
          /\ callTrace' = callTrace \o <<"failed", "delay">>
    /\ (genPc = "request" /\ RequestsSent = 3) => genPc' # "delay"

\* C12: callGeminiWithRetry sends at most 3 requests per call; it returns the
\* text of the first request that gives a text; an exception and an empty
\* text both count as a failed attempt; it waits between attempts and not
\* after the last one; and it raises the terminal error exactly when all 3
\* attempts failed.
C12_AtMostThreeRequests == []C12_CallShape /\ [][C12_CallEnds]_vars

\* C12 witness: the third request of a call is pending after two failed
\* attempts, each followed by a delay.
C12_Witness ==
    /\ genPc = "request"
    /\ callTrace = <<"request", "failed", "delay", "request", "failed", "delay",
                     "request">>

(***************************************************************************)
(* Properties of handleRefineTCs (checked under SpecApp).                  *)
(***************************************************************************)
\* C13: refinement replaces and does not merge.  After a refine run that
\* returned at least one record the stored records of the project are
\* exactly the returned ones and none of the records stored before is among
\* them; a refine run that returned no record or that failed leaves the
\* stored records as they were.  A run ends in the first way exactly when it
\* returned a record.
C13_RefineReplaces ==
    /\ lastRefine.outcome = "replaced" =>
          /\ lastRefine.returned # <<>>
          /\ storedTestCases = lastRefine.returned
          /\ IdsOf(storedTestCases) \cap IdsOf(lastRefine.before) = {}
    /\ lastRefine.outcome \in {"noRecords", "failed"} =>
          /\ lastRefine.returned = <<>>
          /\ storedTestCases = lastRefine.before

\* C13 witness: a refine run has replaced the two stored records of an
\* earlier run by the one record that it returned.
C13_Witness ==
    /\ appPc = "idle"
    /\ lastRefine.outcome = "replaced"
    /\ Len(lastRefine.before) = 2
    /\ Len(storedTestCases) = 1

(***************************************************************************)
(* Properties of fetchViaProxy and fetchWithRetry (checked under           *)
(* SpecFetch).                                                             *)
(***************************************************************************)
\* The number of relays of the class of the call in flight.
RelayCount == Len(generators(isImage))

\* The answer of the relay that answered last.
LastAnswer == answers[Len(answers)]

\* The relay answered with a response that fetchViaProxy hands to its caller
\* wherever the relay is in the list.
Usable(a) == ~a.threw /\ a.status # 429 /\ a.status < 500

\* The error that the outermost call rejected with.
RaisedError == fetchResult.error

\* C14: if every relay of the class answers HTTP 500, fetchViaProxy sends a
\* request to each relay exactly once, in list order, and then raises; no
\* call of fetchViaProxy sends two requests to one relay or more requests
\* than there are relays.
C14_EachRelayOnceThenRaise ==
    /\ contacted = [k \in 1..Len(contacted) |-> k - 1]
    /\ Len(contacted) <= RelayCount
    /\ Len(answers) <= Len(contacted)
    /\ (/\ Len(answers) = RelayCount
        /\ \A k \in 1..Len(answers) : answers[k] = Answered(500, JNull)) =>
          /\ contacted = [k \in 1..RelayCount |-> k - 1]
          /\ fetchPc \in {"raised", "errorDelay"}
          /\ (fetchPc = "raised" /\ ~aborted) => RaisedError = AllProxiesFailed
          /\ (fetchPc = "errorDelay") => byRetry /\ retries > 0

\* C14 witness: the three relays of the image class answered 500 one after
\* the other and the call has raised.
C14_Witness ==
    /\ isImage
    /\ fetchPc = "raised"
    /\ contacted = <<0, 1, 2>>
    /\ answers = <<Answered(500, JNull), Answered(500, JNull), Answered(500, JNull)>>

DelayedAnswers ==
    {k \in 1..Len(answers) :
        k < RelayCount /\ (answers[k].threw \/ answers[k].status = 429)}

\* While the last answer is a 429: from the last relay, it is the response
\* that fetchViaProxy returned (fetchWithRetry then waits or raises its own
\* errors, and the error of line 150 is raised nowhere); from another relay,
\* a delay of 500 ms followed and the call is in that delay or has gone on
\* to the next relay, unless the signal fired.
C16_RateLimitedState ==
    /\ Len(relayWaits) = Cardinality(DelayedAnswers)
    /\ \A k \in 1..Len(relayWaits) : relayWaits[k] = RELAY_DELAY_MS
    /\ (answers # <<>> /\ ~LastAnswer.threw /\ LastAnswer.status = 429) =>
          IF Len(answers) = RelayCount
          THEN /\ Len(contacted) = RelayCount
               /\ IF byRetry
                  THEN /\ fetchPc \in {"backoff", "raised"}
                       /\ (fetchPc = "raised" /\ ~aborted) =>
                             RaisedError \in {RateLimitExceeded, TokenBlocked}
                  ELSE /\ fetchPc = "returned"
                       /\ fetchResult.response = Response(429, LastAnswer.retryAfter)
          ELSE \/ fetchPc = "relayDelay" /\ Len(contacted) = Len(answers)
               \/ fetchPc = "fetching" /\ Len(contacted) = Len(answers) + 1
               \/ fetchPc = "raised" /\ aborted /\ RaisedError = AbortError

\* The step behind a delay of fetchViaProxy sends the request to the next
\* relay, unless the signal fired.
C16_AfterRelayDelay ==
    (fetchPc = "relayDelay" /\ ~aborted /\ ~aborted') =>
        /\ fetchPc' = "fetching"
        /\ contacted' = Append(contacted, relayI + 1)
        /\ relayWaits' = relayWaits

C17_NetworkErrorRecorded ==
    (answers # <<>> /\ LastAnswer.threw) =>
        /\ lastError = NetworkError(Len(answers) - 1)
        /\ (Len(answers) < RelayCount /\ ~aborted) =>
              \/ fetchPc = "relayDelay" /\ Len(contacted) = Len(answers)
              \/ fetchPc = "fetching" /\ Len(contacted) = Len(answers) + 1

\* Once the signal has fired no request is sent, and the step that follows
\* ends the call with the AbortError.
C17_AfterAbort ==
    aborted =>
        /\ contacted' = contacted
        /\ fetchPc' = "raised"
        /\ fetchResult'.error = AbortError

\* C17: a failure on the network of one relay is recorded and the next relay
\* is tried, unless the operation was cancelled: once the signal has fired,
\* no further relay gets a request and the AbortError is propagated.
C17_CancellationStopsRotation ==
    /\ []C17_NetworkErrorRecorded
    /\ [][C17_AfterAbort]_vars
    /\ [](fetchPc \in {"returned", "raised"} /\ aborted => RaisedError = AbortError)

\* C17 witness: the first relay of the image class failed on the network,
\* the signal fired while the request to the second one was pending, and the
\* call raised the AbortError without a request to the third one.
C17_Witness ==
    /\ isImage
    /\ aborted
    /\ fetchPc = "raised"
    /\ answers = <<Unreachable>>
    /\ contacted = <<0, 1>>
    /\ lastError = NetworkError(0)
    /\ RaisedError = AbortError

\* The relays of the call that failed on the network, by their index.
ThrewAt == {k \in 1..Len(answers) : answers[k].threw}

\* The last of them.
LastThrewAt == CHOOSE k \in ThrewAt : \A m \in ThrewAt : m <= k

\* All relays got a request and the last one gave no response that
\* fetchViaProxy returns.
Exhausted ==
    /\ Len(answers) = RelayCount
    /\ LastAnswer.threw \/ LastAnswer.status >= 500

\* C18: when fetchViaProxy has tried all relays without a response to
\* return, it fails with the most recent network error of this call if a
\* relay raised one, also when relays behind it answered 500 or more, and
\* with the error that all relays failed only if no relay raised one.
C18_LastNetworkErrorSurfaces ==
    (Exhausted /\ fetchPc = "raised" /\ ~aborted) =>
        IF ThrewAt # {}
        THEN RaisedError = NetworkError(LastThrewAt - 1)
        ELSE RaisedError = AllProxiesFailed

\* C18 witness: the first relay of the image class answered 500, the second
\* one failed on the network, the third one answered 503, and the call
\* raised the network error of the second one.
C18_Witness ==
    /\ isImage
    /\ fetchPc = "raised"
    /\ answers = <<Answered(500, JNull), Unreachable, Answered(503, JNull)>>
    /\ RaisedError = NetworkError(1)

\* fetchWithRetry has received a 429 whose Retry-After is a number of more
\* than 60 seconds: the last relay of the API class answered it.
HardBlockReceived ==
    /\ byRetry
    /\ Len(answers) = RelayCount
    /\ ~LastAnswer.threw
    /\ LastAnswer.status = 429
    /\ Truthy(LastAnswer.retryAfter)
    /\ ~parseInt(LastAnswer.retryAfter.s).nan
    /\ parseInt(LastAnswer.retryAfter.s).n > 60

\* C19: when fetchWithRetry receives a 429 whose Retry-After exceeds 60
\* seconds it fails at once with the hard-block error: no wait and no
\* request follow.
C19_HardBlockFailsAtOnce ==
    HardBlockReceived =>
        /\ fetchPc = "raised"
        /\ RaisedError = TokenBlocked

\* fetchWithRetry has received a 429 with Retry-After: 5 while retries
\* remain, and waits.
WaitsFiveSeconds ==
    /\ fetchPc = "backoff"
    /\ LastAnswer.status = 429
    /\ LastAnswer.retryAfter = JStr(<<"5">>)

\* A 429 with Retry-After: 5 that arrives while retries remain is followed
\* by one wait of 5000 ms; a 429 without the header is followed by a wait of
\* the backoff base of the call.
C20_WaitState ==
    fetchPc = "backoff" =>
        /\ byRetry /\ retries > 0
        /\ Len(retryWaits) = proxyCalls
        /\ LastAnswer.status = 429
        /\ LastAnswer.retryAfter = JStr(<<"5">>) => retryWaits[Len(retryWaits)] = 5000
        /\ (LastAnswer.retryAfter = JNull /\ defaultBackoff >= MIN_BACKOFF_MS) =>
              retryWaits[Len(retryWaits)] = defaultBackoff

\* The step that receives a 429 with Retry-After: 5 while retries remain
\* starts the wait.
C20_WaitStarts ==
    (/\ byRetry /\ retries > 0 /\ fetchPc = "fetching"
     /\ Len(answers') = RelayCount
     /\ answers' = Append(answers, Answered(429, JStr(<<"5">>)))) =>
        /\ fetchPc' = "backoff"
        /\ retryWaits' = Append(retryWaits, 5000)

\* The step behind that wait sends the next request, with one retry less
\* and a backoff base above the 5000 ms just waited; no second wait comes
\* before the request.
C20_WaitEnds ==
    (WaitsFiveSeconds /\ ~aborted /\ ~aborted') =>
        /\ fetchPc' = "fetching"
        /\ contacted' = <<0>>
        /\ proxyCalls' = proxyCalls + 1
        /\ retryWaits' = retryWaits
        /\ retries' = retries - 1
        /\ defaultBackoff' > 5000
        /\ defaultBackoff' = 7500

\* C20: a 429 with Retry-After: 5 that fetchWithRetry receives while retries
\* remain makes it wait exactly once, 5000 ms, before the next request; the
\* next attempt has one retry less and a backoff base strictly above that
\* wait, and that base is the wait after a following 429 without the header.
C20_RetryAfterFiveSeconds ==
    /\ []C20_WaitState
    /\ [][C20_WaitStarts]_vars
    /\ [][C20_WaitEnds]_vars

\* C20 witness: after a 429 with Retry-After: 5 and its wait of 5000 ms the
\* second attempt got a 429 without the header and waits 7500 ms.
C20_Witness ==
    /\ fetchPc = "backoff"
    /\ retryWaits = <<5000, 7500>>
    /\ retries = 2
    /\ defaultBackoff = 7500
    /\ LastAnswer.retryAfter = JNull

\* fetchWithRetry has rejected with an error of its own or of fetchViaProxy,
\* and not because the signal fired.
RetryFailed == byRetry /\ fetchPc = "raised" /\ ~aborted

\* The last relay of the class has answered the call in flight with a 429.
LastRelayRateLimited ==
    /\ Len(answers) = RelayCount
    /\ ~LastAnswer.threw
    /\ LastAnswer.status = 429

\* Every error that ends fetchWithRetry names what ended it: the
\* rate-limit error a 429 at retries = 0, the hard-block error a 429 whose
\* Retry-After of more than 60 seconds was read, a network error a relay
\* that could not be reached in the last attempt, and the error that all
\* relays failed a last attempt in which every relay answered 500 or more.
C21_ErrorNamesCause ==
    RetryFailed =>
        CASE RaisedError.message = RateLimitExceeded.message ->
                 RaisedError = RateLimitExceeded /\ retries = 0 /\ LastRelayRateLimited
          [] RaisedError.message = TokenBlocked.message ->
                 RaisedError = TokenBlocked /\ retries > 0 /\ HardBlockReceived
          [] RaisedError.message = NetworkError(0).message ->
                 /\ retries = 0 /\ Exhausted /\ ThrewAt # {}
                 /\ RaisedError = NetworkError(LastThrewAt - 1)
          [] RaisedError.message = AllProxiesFailed.message ->
                 /\ RaisedError = AllProxiesFailed
                 /\ retries = 0 /\ Exhausted /\ ThrewAt = {}
          [] OTHER -> FALSE

\* Every cause ends fetchWithRetry with its error: a 429 at retries = 0 is
\* never the result of the call, a hard block that was detected raises the
\* hard-block error, and a last attempt that a relay failed on the network
\* raises that network error.
C21_CauseRaisesError ==
    /\ (byRetry /\ fetchPc = "returned") => fetchResult.response.status # 429
    /\ (byRetry /\ LastRelayRateLimited /\ retries = 0 /\ ~aborted) =>
          fetchPc = "raised" /\ RaisedError = RateLimitExceeded
    /\ (HardBlockReceived /\ retries > 0 /\ ~aborted) =>
          fetchPc = "raised" /\ RaisedError = TokenBlocked
    /\ (byRetry /\ Exhausted /\ ThrewAt # {} /\ retries = 0 /\ ~aborted) =>
          fetchPc = "raised" /\ RaisedError = NetworkError(LastThrewAt - 1)

C22_CallsAndRetries ==
    (byRetry /\ fetchPc # "idle") =>
        /\ retries >= 0
        /\ proxyCalls + retries = DEFAULT_RETRIES + 1
        /\ proxyCalls <= DEFAULT_RETRIES + 1

\* fetchWithRetry calls fetchViaProxy again only behind one of its waits,
\* with one retry less; a call that has returned or failed calls nothing.
C22_CallAgain ==
    (byRetry /\ proxyCalls' # proxyCalls) =>
        /\ fetchPc \in {"idle", "backoff", "errorDelay"}
        /\ proxyCalls' = proxyCalls + 1
        /\ fetchPc # "idle" => retries > 0 /\ retries' = retries - 1

\* C22: whatever the relays answer (429 and network errors in any mixture),
\* a call of fetchWithRetry that starts with R retries calls fetchViaProxy
\* at most R + 1 times before it returns or fails: every further call uses
\* up one retry, and the failure of an inner attempt ends the whole call
\* with the retries of that attempt, so that no outer level tries again.
C22_AtMostRPlusOneCalls == []C22_CallsAndRetries /\ [][C22_CallAgain]_vars

\* C22 witness: a call whose first attempt failed on the network, whose
\* second and third attempts were answered 429 and whose fourth attempt
\* failed on the network has failed after four calls of fetchViaProxy.
C22_Witness ==
    /\ RetryFailed
    /\ proxyCalls = DEFAULT_RETRIES + 1
    /\ retries = 0
    /\ retryWaits = <<ERROR_DELAY_MS, 3000, 4500>>
    /\ RaisedError.name = "TypeError"


(***************************************************************************)
(* Properties of getFigmaFilePages, getFigmaFrames and processFigmaPage    *)
(* (checked under SpecImport).                                             *)
(***************************************************************************)
\* The operation has resolved or rejected.
Settled == impPc \in {"resolved", "rejected"}

\* The error that the operation rejected with.
ImportError == impResult.error

\* The notes among the items.
Notes(files) == {k \in 1..Len(files) : files[k].kind = "note"}

\* C23: cancellation is never retried.  Once the signal has fired, no step
\* of urlToBase64 or of the loops of processFigmaPage sends a request,
\* starts a delay or falls back to a text-only note.
C23_CancellationNeverRetried ==
    [][signalAborted =>
          /\ requests' = requests
          /\ delays' = delays
          /\ Notes(uploadedFiles') = Notes(uploadedFiles)]_vars

\* C24: if the signal fires while getFigmaFilePages, getFigmaFrames or
\* processFigmaPage waits in a delay or for a pending request, the promise
\* of the operation rejects with the AbortError: the operation does not
\* resolve and does not reject with another error.
C24_CancellationRejects ==
    /\ (Settled /\ abortedAt \in RequestPcs \cup DelayPcs) =>
          impPc = "rejected" /\ ImportError = AbortError
    /\ (signalAborted /\ abortedAt \in RequestPcs \cup DelayPcs) =>
          impPc \in {abortedAt, "rejected"}

\* C24 witness: the signal fired while processFigmaPage waited in the delay
\* behind an image batch, and the operation rejected with the AbortError.
C24_Witness ==
    /\ impOp = "processFigmaPage"
    /\ abortedAt = "imageDelay"
    /\ impPc = "rejected"
    /\ ImportError = AbortError

\* The targets that the assembly loop has dealt with.
Processed == {targets[k].id : k \in 1..(targetI - 1)}

\* The items of the target id, by their kinds and in their order.
KindsOf(id) ==
    LET mine == SelectSeq(uploadedFiles, LAMBDA f : f.target = id)
    IN  [k \in 1..Len(mine) |-> mine[k].kind]

\* C25: without cancellation, processFigmaPage with a target set that is not
\* empty resolves whatever failed in a batch or for a target: every target
\* has an item, a target without a downloaded image has its note, and the
\* error of zero output is raised only with no item at all.
C25_PartialFailuresDegrade ==
    /\ (impOp = "processFigmaPage" /\ Settled /\ Len(targets) > 0 /\ ~signalAborted) =>
          /\ impPc = "resolved"
          /\ impResult.value = uploadedFiles
          /\ \A k \in 1..Len(targets) : KindsOf(targets[k].id) # <<>>
          /\ \A k \in 1..Len(targets) :
                targets[k].id \notin imageUrlMap => KindsOf(targets[k].id) = <<"note">>
    /\ (Settled /\ ImportError = NoOutput) => uploadedFiles = <<>>

\* C25 witness: the text batch, both image batches and their retries failed,
\* and processFigmaPage resolved with the notes of its three targets.
C25_Witness ==
    /\ impPc = "resolved"
    /\ ~signalAborted
    /\ Len(targets) = 3
    /\ {"text", "image", "retry"} \subseteq failedSteps
    /\ Len(requests) = 6
    /\ \A k \in 1..3 : KindsOf(targets[k].id) = <<"note">>

\* The position of the node id in targets.
PositionOf(id) == CHOOSE k \in 1..Len(targets) : targets[k].id = id

\* C26: the items come target by target in the order of the targets.  A
\* target whose image was downloaded has one image item, followed by one
\* text item exactly if text was extracted for it; a target without an
\* image URL or with a failed download has exactly one note with the
\* failure marker; every target that was dealt with has an item, so that
\* the result has at least as many items as there are targets.
C26_ItemsPerTarget ==
    /\ \A k \in 1..Len(uploadedFiles) : uploadedFiles[k].target \in Processed
    /\ \A j \in 1..Len(uploadedFiles) : \A k \in j..Len(uploadedFiles) :
          PositionOf(uploadedFiles[j].target) <= PositionOf(uploadedFiles[k].target)
    /\ \A id \in Processed :
          /\ KindsOf(id) \in {<<"image">>, <<"image", "text">>, <<"note">>}
          /\ KindsOf(id) = <<"image", "text">> <=>
                (KindsOf(id)[1] = "image" /\ textOf(ImportState, id) # "")
          /\ KindsOf(id)[1] = "image" => id \in imageUrlMap
          /\ id \notin imageUrlMap => KindsOf(id) = <<"note">>
    /\ \A k \in 1..Len(uploadedFiles) :
          uploadedFiles[k].marked <=> uploadedFiles[k].kind = "note"
    /\ (impPc = "resolved" /\ impOp = "processFigmaPage") =>
          /\ Processed = idsOfNodes(targets)
          /\ Len(uploadedFiles) >= Len(targets)

\* C26 witness: of three targets the first has its image and its text, the
\* second, a text node, its note, and the third, whose download failed, its
\* note.
C26_Witness ==
    /\ impPc = "resolved"
    /\ Len(targets) = 3
    /\ [k \in 1..Len(uploadedFiles) |-> uploadedFiles[k].kind]
          = <<"image", "text", "note", "note">>
    /\ targets[3].id \in imageUrlMap
    /\ "download" \in failedSteps

\* C27: a hard block ends the import.  Once fetchWithRetry has raised the
\* hard-block error in a step of processFigmaPage, the text batches and the
\* image batches included, processFigmaPage has failed with that error.
C27_HardBlockIsTerminal ==
    (impOp = "processFigmaPage" /\ blockedSteps # {}) =>
        impPc = "rejected" /\ ImportError = TokenBlocked

\* The steps behind the request for the page or the document.
BatchSteps == {"text", "image", "retry", "download"}

RequestedSteps == {requests[k] : k \in 1..Len(requests)}

\* C28: the preconditions fail before the work that depends on them.  With
\* a URL that has no key each of the three operations fails without a
\* request; processFigmaPage with an empty target set fails before a
\* request of a batch; with targetNodeIds given, every target and every
\* item is of a node of that list, and every target is of a valid kind.
C28_PreconditionsFirst ==
    /\ (impPc # "idle" /\ fileKey = <<>>) =>
          impPc = "rejected" /\ ImportError = InvalidUrl /\ requests = <<>>
    /\ (impPc # "idle" /\ fileKey # <<>>) => requests # <<>> /\ requests[1] = "list"
    /\ (Settled /\ ImportError = NoTargets) => requests = <<"list">> /\ targets = <<>>
    /\ RequestedSteps \cap BatchSteps # {} => Len(targets) > 0
    /\ targetNodeIds.given =>
          /\ idsOfNodes(targets) \subseteq targetNodeIds.ids
          /\ \A k \in 1..Len(uploadedFiles) : uploadedFiles[k].target \in targetNodeIds.ids
    /\ \A k \in 1..Len(targets) : targets[k].type \in VALID_TYPES

\* C28 witness: processFigmaPage with the ids of the frame and of the vector
\* in targetNodeIds has resolved with the items of the frame alone.
C28_Witness ==
    /\ impPc = "resolved"
    /\ impOp = "processFigmaPage"
    /\ targetNodeIds = [given |-> TRUE, ids |-> {1, 4}]
    /\ idsOfNodes(targets) = {1}
    /\ uploadedFiles # <<>>

\* The place of a request in the order of the steps of processFigmaPage.
StepRank(r) ==
    CASE r = "list" -> 0
      [] r = "text" -> 1
      [] r \in {"image", "retry"} -> 2
      [] OTHER -> 3

\* The number of requests of the step.
CountOf(step) == Cardinality({k \in 1..Len(requests) : requests[k] = step})

\* The image batches that have a renderable node.
RenderableChunks ==
    {c \in 0..(chunkCount(targets, IMAGE_BATCH_SIZE) - 1) :
        renderableIds(chunkAt(targets, IMAGE_BATCH_SIZE, c)) # {}}

TextFieldsOf(tc) ==
    {tc.title, tc.depth1, tc.depth2, tc.depth3, tc.precondition, tc.steps,
     tc.expectedResult}

\* The text has no white space at its start and none at its end.
IsTrimmed(v) == v.t = "string" => trim(v.s) = v.s

\* C29: in every record that generateTestCases and updateTestCasesWithQA
\* return, title, depth1, depth2, depth3, precondition, steps and
\* expectedResult have no leading and no trailing white space.
C29_TextFieldsTrimmed ==
    /\ \A k \in 1..Len(genResult.testCases) :
          \A v \in TextFieldsOf(genResult.testCases[k]) : IsTrimmed(v)
    /\ \A k \in 1..Len(lastRefine.returned) :
          \A v \in TextFieldsOf(lastRefine.returned[k]) : IsTrimmed(v)

\* The two records agree in id, no and the three depth fields.
SameButText(a, b) ==
    /\ a.id = b.id /\ a.no = b.no
    /\ a.depth1 = b.depth1 /\ a.depth2 = b.depth2 /\ a.depth3 = b.depth3

\* The two records agree in every field but no.
SameButNo(a, b) == [a EXCEPT !.no = b.no] = b

\* The ids of the list are pairwise distinct.
DistinctIds(tcs) == \A j, k \in 1..Len(tcs) : j # k => tcs[j].id # tcs[k].id

\* normalizeTestCases answers as many records as it was given, each with
\* the id, the no and the depth fields of the record at its position.
C30_NormalizeKeeps ==
    /\ Len(lastPhase.batch) = Len(lastPhase.mapped)
    /\ DistinctIds(lastPhase.mapped) /\ DistinctIds(lastPhase.batch)
    /\ \A k \in 1..Len(lastPhase.batch) :
          SameButText(lastPhase.mapped[k], lastPhase.batch[k])

\* postProcessTestCases answers the records that it was given, in some
\* order and with no field but no changed.
C30_PostProcessKeeps ==
    genPc = "done" =>
        /\ Len(genResult.testCases) = Len(accumulatedTestCases)
        /\ DistinctIds(accumulatedTestCases) /\ DistinctIds(genResult.testCases)
        /\ IdsOf(genResult.testCases) = IdsOf(accumulatedTestCases)
        /\ \A k \in 1..Len(accumulatedTestCases) :
              \E j \in 1..Len(genResult.testCases) :
                 SameButNo(accumulatedTestCases[k], genResult.testCases[j])

\* A record that was accumulated stays as it is, at its position.
C30_AccumulatedStay ==
    /\ Len(accumulatedTestCases') >= Len(accumulatedTestCases)
    /\ SubSeq(accumulatedTestCases', 1, Len(accumulatedTestCases)) = accumulatedTestCases

\* C30: the id of a record is assigned once, when mapToTestCases creates the
\* record, and never changes.  normalizeTestCases changes only title,
\* steps, precondition and expectedResult, postProcessTestCases changes
\* only no and the order; both keep every id, keep the ids pairwise
\* distinct and neither add nor drop a record.
C30_IdAssignedOnce ==
    /\ [](C30_NormalizeKeeps /\ C30_PostProcessKeeps)
    /\ [][C30_AccumulatedStay]_vars

\* C30 witness: the last phase was answered with the fenced response, whose
\* title and steps normalizeTestCases changed, and postProcessTestCases
\* has put a record of a later place first among three or more.
C30_Witness ==
    /\ genPc = "done"
    /\ lastPhase.response = "Fenced"
    /\ Len(lastPhase.batch) = 1
    /\ lastPhase.batch[1].title # lastPhase.mapped[1].title
    /\ lastPhase.batch[1].steps # lastPhase.mapped[1].steps
    /\ Len(genResult.testCases) >= 3
    /\ genResult.testCases[1].id # accumulatedTestCases[1].id
    /\ \E k \in 1..Len(genResult.testCases) :
          genResult.testCases[k].no # accumulatedTestCases[k].no

\* C37: once the client exists generateTestCases never rejects, whatever the
\* model answers and however the parse of an answer ends: the run ends
\* resolved, with an empty record list when no phase appended a record.
C37_GenerateAlwaysResolves ==
    /\ genPc # "rejected"
    /\ (genPc = "done" /\ accumulatedTestCases = <<>>) => genResult.testCases = <<>>

\* C37, the part that holds: a run rejects only when the comparator of
\* postProcessTestCases raises on the accumulated records; failed calls and
\* answers that do not parse leave it resolving.
C37_RejectsOnlyInSort ==
    /\ genPc = "rejected" => sortRaises(accumulatedTestCases)
    /\ (genPc = "done" /\ accumulatedTestCases = <<>>) => genResult.testCases = <<>>

\* C37, the failing case: the run has rejected behind its last phase.
C37_Rejected ==
    /\ genPc = "rejected"
    /\ phaseI >= Len(PHASES)
    /\ Len(accumulatedTestCases) >= 2

(***************************************************************************)
(* Properties of delay (checked under SpecDelay).                          *)
(***************************************************************************)
\* The state of a call of delay.
C32_DelayState(d) ==
    /\ d.promise = "pending" <=> d.timer = "pending"
    /\ d.promise = "resolved" <=> d.timer = "fired"
    /\ d.promise = "rejected" <=> d.timer \in {"none", "cleared"}
    /\ d.promise = "rejected" => d.error = AbortError
    /\ (d.signalled /\ delaySignal) => d.promise # "pending"
    /\ ~d.signalled => d.promise # "rejected"
    /\ d.timer = "none" => d.signalled

\* A settled promise stays as it is, and a promise is rejected only by the
\* signal.
C32_SettlesOnce ==
    \A k \in 1..Len(delayCalls) :
        /\ delayCalls[k].promise # "pending" =>
              /\ delayCalls'[k].promise = delayCalls[k].promise
              /\ delayCalls'[k].error = delayCalls[k].error
        /\ (delayCalls[k].promise = "pending" /\ delayCalls'[k].promise = "rejected") =>
              ~delaySignal /\ delaySignal'

\* C32: the delay settles exactly once.  It rejects with the AbortError at
\* once when the signal has fired before the call; it rejects and clears
\* its timer when the signal fires before the timer; else it resolves when
\* the timer fires.  A signal that fires after the delay has resolved has
\* no effect on it, and no timer is pending after a rejection.
C32_DelaySettlesOnce ==
    /\ [](\A k \in 1..Len(delayCalls) : C32_DelayState(delayCalls[k]))
    /\ [][C32_SettlesOnce]_vars

\* C32 witness: of three calls with the signal the first has resolved before
\* the signal fired, the second was rejected by the signal, which cleared its
\* timer, and the third was called after it and has never set a timer.
C32_Witness ==
    /\ delaySignal
    /\ Len(delayCalls) = 3
    /\ \A k \in 1..3 : delayCalls[k].signalled
    /\ delayCalls[1].promise = "resolved" /\ ~delayCalls[1].listener
    /\ delayCalls[2].promise = "rejected" /\ delayCalls[2].timer = "cleared"
    /\ delayCalls[3].promise = "rejected" /\ delayCalls[3].timer = "none"

(***************************************************************************)
(* Claims about the expansion loop (SpecExpand).                           *)
(***************************************************************************)
\* An expansion call of the phase that does not let the loop go on: it failed,
\* it gave no record, or it reported hasMore false.
StopsLoop(p) == p.failed \/ p.n = 0 \/ ~p.hasMore

\* The expansion calls the phase has made: the answered ones and the one in flight.
ExpansionCalls == Len(pageLog) + (IF expPc = "page" THEN 1 ELSE 0)

\* C35: the expansion sub-loop of a phase makes at most MAX_PAGES (3) calls, and
\* it makes no further call after a call that reported hasMore false, returned
\* zero records or failed; so the loop always ends.
C35_ExpansionBounded ==
    /\ ExpansionCalls <= MAX_PAGES
    /\ pageCount = ExpansionCalls
    /\ \A k \in 1..Len(pageLog) :
           StopsLoop(pageLog[k]) => /\ k = Len(pageLog)
                                    /\ expPc # "page"
    /\ (expPc # "page" /\ expPc # "start" /\ Len(pageLog) < MAX_PAGES /\ Len(pageLog) > 0)
           => StopsLoop(pageLog[Len(pageLog)])

\* C35 witness: a phase whose three pages all gave records and reported hasMore
\* true has left the loop and waits for its verification.
C35_Witness ==
    /\ expPc = "verify"
    /\ Len(pageLog) = MAX_PAGES
    /\ \A k \in 1..Len(pageLog) : ~StopsLoop(pageLog[k])

(***************************************************************************)
(* Claims about the DEEP_DIVE audit (SpecAudit).                           *)
(***************************************************************************)
\* A finished DEEP_DIVE phase whose draft had records: it made an audit call.
Audited(p) == p.mode = "DEEP_DIVE" /\ p.audit \in {"failed", "empty", "records"}

FromAudit(tcs) == \A k \in 1..Len(tcs) : tcs[k].from = "audit"

\* C36: in a DEEP_DIVE phase the audit result replaces the draft only when the
\* audit returned at least one record; when the audit call failed or returned
\* zero records the phase appends its draft records to the accumulator.
C36_AuditFallsBackToDraft ==
    \A k \in 1..Len(audLog) :
        Audited(audLog[k]) =>
            IF audLog[k].audit = "records"
            THEN Len(audLog[k].appended) > 0 /\ FromAudit(audLog[k].appended)
            ELSE audLog[k].appended = audLog[k].draft

\* C36, the part that holds: an audit that answered, with records or without,
\* is followed as the claim says.
C36_AnsweredAuditFollowed ==
    \A k \in 1..Len(audLog) :
        (Audited(audLog[k]) /\ audLog[k].audit # "failed") =>
            IF audLog[k].audit = "records"
            THEN Len(audLog[k].appended) > 0 /\ FromAudit(audLog[k].appended)
            ELSE audLog[k].appended = audLog[k].draft

\* C36, the failing case: a DEEP_DIVE phase whose audit call failed has
\* appended nothing although its draft had records.
C36_DraftLost ==
    \E k \in 1..Len(audLog) :
        /\ audLog[k].mode = "DEEP_DIVE"
        /\ audLog[k].audit = "failed"
        /\ Len(audLog[k].draft) > 0
        /\ audLog[k].appended = <<>>

(***************************************************************************)
(* Claims about the projects of App (SpecProjects).                        *)
(***************************************************************************)
\* The run of project id ends in this step.
RunEnds(id) == runsInFlight[id] # NoRun /\ runsInFlight'[id] = NoRun

StoredOf(list, id) == projectOf(list, id).testCases

\* The end of a run of project id leaves the test cases of every other
\* project as they were, in the list and in the workspace.
OthersUntouched(id) ==
    /\ \A q \in 1..Len(projects) :
           projects[q].id # id => projects'[q].testCases = projects[q].testCases
    /\ (currentProject # NoProject /\ currentProject.id # id) =>
           currentProject'.testCases = currentProject.testCases

\* C38: the result of a generate or refine run started for a project is
\* written to that project only: when the run ends while another project is
\* open, neither the stored nor the shown test cases of the other project
\* change.
C38_OnlyOwnProjectWritten ==
    [][\A id \in ProjectIds : RunEnds(id) => OthersUntouched(id)]_vars

\* C38, the part that holds: the end of a run changes the stored records of
\* no other project.
C38_StoredOfOthersKept ==
    [][\A id \in ProjectIds : RunEnds(id) =>
          \A q \in 1..Len(projects) :
              projects[q].id # id => projects'[q] = projects[q]]_vars

\* C38, the failing case: the workspace shows for a project a record that a
\* run of another project returned and that is not stored for the project.
C38_ForeignRecordShown ==
    /\ currentProject # NoProject
    /\ runsInFlight[currentProject.id] = NoRun
    /\ \E k \in 1..Len(currentProject.testCases) :
          \A j \in 1..Len(StoredOf(projects, currentProject.id)) :
              StoredOf(projects, currentProject.id)[j] # currentProject.testCases[k]

Numbers(tcs) == {tcs[k].no : k \in 1..Len(tcs)}

\* C40: the stored test cases of every project carry pairwise distinct
\* numbers that form 1..N for its N stored records, after any sequence of
\* generate and refine runs.
C40_StoredNumbersSequential ==
    \A q \in 1..Len(projects) :
        /\ Numbers(projects[q].testCases) = 1..Len(projects[q].testCases)
        /\ \A j, k \in 1..Len(projects[q].testCases) :
               projects[q].testCases[j].no = projects[q].testCases[k].no => j = k

\* C40, the failing case: two generate runs of one project have ended and its
\* stored records repeat the number 1.
C40_NumberRepeated ==
    \E q \in 1..Len(projects) :
        \E j, k \in 1..Len(projects[q].testCases) :
            /\ j < k
            /\ projects[q].testCases[j].no = 1
            /\ projects[q].testCases[k].no = 1
            /\ projects[q].testCases[j].run # projects[q].testCases[k].run

(***************************************************************************)
(* Claims about the design import of ProjectSetup (SpecSetup).             *)
(***************************************************************************)
\* The operations in flight: pending, and their signal not aborted.
InFlight == {op \in pendingOps : op.id \notin abortedControllers}

\* C39: while an import operation is in flight the stored abort controller is
\* the controller of that operation and the loading flag is set, also when a
\* new operation was started while an earlier one was pending and the
\* completion handler of the earlier one ran behind the start of the new one.
C39_ControllerTracksOperation ==
    mounted => \A op \in InFlight : abortControllerRef = op.id /\ isLoading

\* C39, the part that holds: as long as no handler was called while an
\* operation was pending, the controller of the operation in flight is stored
\* and the loading flag is set.
C39_TracksWithoutOverlap ==
    (mounted /\ ~overlapped) =>
        \A op \in InFlight : abortControllerRef = op.id /\ isLoading

\* C39, the failing case: an operation is in flight while no controller is
\* stored and the loading flag is down, so that neither cancel nor unmount
\* aborts it.
C39_OperationUntracked ==
    /\ mounted
    /\ \E op \in InFlight : abortControllerRef = 0 /\ ~isLoading
    /\ overlapped
=============================================================================
